---- MODULE Spec2Model ----
(***************************************************************************)
(* VanCamera (windows client): the streaming receiver                      *)
(* (video_receiver.py) and the discovery service (device_discovery.py,     *)
(* adb_forward.py) as state machines.                                      *)
(*                                                                         *)
(*   SpecParse  the packet parser as a pure function of the bytes on the   *)
(*              wire, for every flags byte                                 *)
(*   Spec       the receiver: connect / start_receiving / disconnect, the  *)
(*              receive loop reading from the TLS byte stream, the decoder *)
(*   SpecSession  the same with the calls of the interface recorded, a     *)
(*              peer that may close in the middle of a packet and a loop   *)
(*              that outlives its session                                  *)
(*   SpecDisc   the discovery service                                      *)
(*   SpecTls    the certificate handler and the handshake of connect()     *)
(*              (certificate_handler.py)                                   *)
(*   SpecView   the frame transform of on_frame_received (ui_app.py)       *)
(***************************************************************************)
EXTENDS Integers, Sequences, FiniteSets, TLC

VARIABLES
    \* ---- VideoReceiver fields (video_receiver.py:31-45) ----
    is_running,          \* self.is_running
    ssl_socket,          \* self.ssl_socket : "none" | "open"
    sock,                \* self.socket     : "none" | "open"
    frame_callback,      \* self.frame_callback is set
    decode_error_count,  \* self.decode_error_count
    frames_decoded,      \* self.frames_decoded
    \* ---- the receive thread (video_receiver.py:132-190) ----
    thread_pc,           \* "none" | "top" | "recv_size" | "recv_payload" | "exited"
    data,                \* the bytearray of the running _receive_exact
    packet_size,         \* the unpacked length prefix
    \* ---- the peer and the TLS byte stream ----
    stream,              \* bytes sent by the peer and not yet read
    link,                \* the connection: "none" | "up" | "eof" (closed by the peer) | "broken"
    \* ---- observation of the latest loop iteration ----
    packet_data,         \* the packet the latest iteration read
    delivered,           \* frame_callback calls made by the latest iteration
    last_result,         \* what the latest iteration did with its packet
    reinitialised,       \* the latest decode failure called _init_decoder
    streak,              \* decode failures in a row since the counter was 0 (-1: not tracked)
    called,              \* the latest call of the receiver's interface, where calls are recorded
    \* ---- the parser alone ----
    sent,                \* the bytes after the length prefix of a packet the peer frames
    wire,                \* the packet as encoded on the wire
    parsed,              \* what the loop body makes of it
    \* ---- DeviceDiscovery fields (device_discovery.py:47-59) ----
    devices,             \* self._devices : id -> DiscoveredDevice
    callbacks,           \* self._callbacks
    lock,                \* self._lock : "free" or the thread holding it
    usb_poll_running,    \* self._usb_poll_running
    mdns_running,        \* self._mdns_running
    zeroconf,            \* self._zeroconf : "none" or "open"
    \* ---- the threads that use the service ----
    th,                  \* per thread: its position and the locals of the running call
    \* ---- observation ----
    stale,               \* listeners not yet handed the registry's current content
    last_adv,            \* per service name, the endpoint last resolved for it since its removal
    \* ---- a receive loop that outlives its session (video_receiver.py:112-113) ----
    late,                \* the loop of the session before the current one is still executing
    \* ---- CertificateHandler and the handshake (certificate_handler.py:13-71) ----
    tls,                 \* the handler's cert_path, the context it creates, the handshake
    \* ---- the frame transform (ui_app.py:269-345) ----
    view,                \* a decoded frame, its metadata and what the transform makes of it
    \* ---- VirtualCamBridge (virtual_cam_bridge.py:20-30) ----
    sink,                \* the bridge's fields and what its latest send_frame did
    \* ---- the preview of the application (ui_app.py:39-45, 347-385) ----
    ui,                  \* is_streaming, _ui_update_pending, the threads delivering frames
    \* ---- the phones attached (what `adb devices` shows) ----
    adb                  \* the status of each phone, and whether it has stopped changing

rvars == <<is_running, ssl_socket, sock, frame_callback, decode_error_count,
           frames_decoded, thread_pc, data, packet_size, stream, link,
           packet_data, delivered, last_result, reinitialised, streak, called>>
pvars == <<sent, wire, parsed>>
dvars == <<devices, callbacks, lock, usb_poll_running, mdns_running, zeroconf, th, stale,
           last_adv>>
\* the loop of an earlier session, the TLS context, the frame transform
svars == <<sink, ui, adb>>
xvars == <<late, tls, view, svars>>
vars == <<rvars, pvars, dvars, xvars>>

-----------------------------------------------------------------------------
(* Bounds of the model *)

\* longest compressed access unit the peer sends, in bytes
MaxPayload == 1
\* most frames one access unit decodes to
MaxFramesPerPacket == 2
\* frames_decoded is counted up to here
MaxFramesDecoded == 2
\* most bytes one recv() call returns
MaxChunk == 2
\* frames of up to MaxHeight rows and MaxWidth columns
MaxHeight == 2
MaxWidth == 3

(* Program constants *)

\* if self.decode_error_count >= 50
ReinitThreshold == 50
\* flags_byte & 0x03
OrientationMask == 3
\* flags_byte & 0x80
MirrorMask == 128
\* orientation_code * 90
DegreesPerCode == 90
\* self._receive_exact(4)
SizeFieldLen == 4

Byte == 0..255
\* flag bytes the peer uses on the stream: every orientation code, mirror on
\* and off, reserved bits 2..6 clear and set
StreamFlags == {0, 125, 130, 255}
\* access-unit bytes on the stream
StreamBytes == {7}
\* access-unit bytes of the parser's inputs
ParseBytes == {0, 255}

-----------------------------------------------------------------------------
(* Pure functions *)

Min(a, b) == IF a < b THEN a ELSE b

RECURSIVE BitAnd(_, _)
\* Python's a & b on non-negative integers
BitAnd(a, b) ==
    IF a = 0 \/ b = 0 THEN 0
    ELSE (a % 2) * (b % 2) + 2 * BitAnd(a \div 2, b \div 2)

\* struct.unpack('>I', size_data)[0]
UnpackBE(b) == ((b[1] * 256 + b[2]) * 256 + b[3]) * 256 + b[4]

\* the peer's 4-byte big-endian length prefix
PackBE(n) == << (n \div 16777216) % 256, (n \div 65536) % 256,
                (n \div 256) % 256, n % 256 >>

\* the peer's encoding of one packet: [4-byte length N][N bytes]
EncodePacket(body) == PackBE(Len(body)) \o body

\* (mutant) the orientation code taken from bits 0-2
OrientationOfThreeBits(flags_byte) == BitAnd(flags_byte, 7) * DegreesPerCode

\* orientation_code = flags_byte & 0x03; orientation_degrees = orientation_code * 90
OrientationOf(flags_byte) == BitAnd(flags_byte, OrientationMask) * DegreesPerCode

\* mirror = (flags_byte & 0x80) != 0
MirrorOf(flags_byte) == BitAnd(flags_byte, MirrorMask) # 0

\* lines 156-160 of the loop body: the arguments of _decode_frame
ParsePacket(pkt) ==
    [orientation_degrees |-> OrientationOf(pkt[1]),
     mirror              |-> MirrorOf(pkt[1]),
     h264_data           |-> Tail(pkt)]

\* lines 142-163 on a whole encoded packet: "incomplete" (_receive_exact is
\* still waiting for bytes), "break" (empty packet_data), "continue" (fewer
\* than 2 bytes) or the arguments of _decode_frame
ParseWire(w) ==
    LET size == UnpackBE(SubSeq(w, 1, SizeFieldLen))
        pkt  == SubSeq(w, SizeFieldLen + 1, SizeFieldLen + size)
    IN  IF Len(w) < SizeFieldLen + size THEN [kind |-> "incomplete"]
        ELSE IF Len(pkt) = 0 THEN [kind |-> "break"]
        ELSE IF Len(pkt) < 2 THEN [kind |-> "continue"]
        ELSE [kind |-> "decode", args |-> ParsePacket(pkt)]

RECURSIVE SeqsUpTo(_, _)
\* the sequences over S of length 0..n
SeqsUpTo(S, n) ==
    IF n = 0 THEN {<< >>}
    ELSE LET shorter == SeqsUpTo(S, n - 1)
         IN  shorter \cup {Append(s, x) : s \in {t \in shorter : Len(t) = n - 1}, x \in S}


-----------------------------------------------------------------------------
(* The discovery service: data                                             *)

\* DeviceDiscovery.DEFAULT_PORT
DEFAULT_PORT == 8443

\* serials of the phones that may be attached
Serials == {"A", "B"}
\* what `adb devices` can show for each phone: phone A is authorised and gets
\* plugged and unplugged ("absent": no line), phone B stays plugged and is
\* authorised or not
Statuses(serial) == IF serial = "A" THEN {"device", "absent"} ELSE {"device", "unauthorized"}
\* mDNS service names
Services == {"VanCamera-P8._vancamera._tcp.local.", "Cam2._vancamera._tcp.local."}
\* what get_service_info resolves a service to
Endpoints == {[address |-> "10.0.0.1", port |-> 8443],
              [address |-> "10.0.0.2", port |-> 9000]}
\* no endpoint resolved yet
NoEndpoint == [address |-> "", port |-> 0]
\* the listeners, in the order in which they register
Listeners == <<"L1", "L2">>
\* the listeners whose callback may call get_devices(); the other one only
\* schedules work for later, as the application's listener does
ReentrantListeners == {"L1"}

Threads == {"poll", "ui", "mdns"}
\* the threads that run _update_usb_devices: the poll loop, and refresh()
Scanners == {"poll", "ui"}

Range(f) == {f[k] : k \in DOMAIN f}

\* device_id = f"usb:{adb_dev.serial}"
UsbId(serial) == "usb:" \o serial

\* device_id = f"wifi:{name}"
WifiId(name) == "wifi:" \o name

\* DiscoveredDevice(id=device_id, name=friendly_name, type="usb", ...)
UsbDevice(serial, friendly_name) ==
    [id |-> UsbId(serial), name |-> friendly_name, type |-> "usb",
     address |-> "127.0.0.1", port |-> DEFAULT_PORT]

\* name.replace("VanCamera-", "").replace(f".{type_}", "") or name, on the
\* service names of Services
FriendlyName(name) ==
    CASE name = "VanCamera-P8._vancamera._tcp.local." -> "P8"
      [] name = "Cam2._vancamera._tcp.local." -> "Cam2"
      [] OTHER -> name

\* DiscoveredDevice(id=device_id, name=friendly_name, type="wifi", ...)
WifiDevice(name, info) ==
    [id |-> WifiId(name), name |-> FriendlyName(name), type |-> "wifi",
     address |-> info.address, port |-> info.port]

\* self._devices[device_id] = device
Put(devs, id, dev) ==
    [k \in DOMAIN devs \cup {id} |-> IF k = id THEN dev ELSE devs[k]]

\* del self._devices[dev_id] for dev_id in ids
Del(devs, ids) == [k \in DOMAIN devs \ ids |-> devs[k]]

\* devices = list(self._devices.values())
SnapshotOf(devs) == Range(devs)

\* [dev_id for dev_id, dev in self._devices.items() if dev.type == device_type]
IdsOfType(devs, device_type) == {k \in DOMAIN devs : devs[k].type = device_type}

(* `adb devices`: the process result, a return code and the lines of stdout *)
(* as token lists (line.split())                                            *)

HeaderLine == <<"List", "of", "devices", "attached">>

\* line.lower().startswith("list of devices")
IsHeader(line) == Len(line) >= 3 /\ SubSeq(line, 1, 3) = SubSeq(HeaderLine, 1, 3)

\* the lines for an assignment of a status, or "absent", to each serial
DeviceLines(st) ==
    (IF st["A"] = "absent" THEN << >> ELSE << <<"A", st["A"]>> >>)
    \o (IF st["B"] = "absent" THEN << >> ELSE << <<"B", st["B"]>> >>)

\* the outputs of a successful `adb devices`: the header, one line per
\* attached phone, a closing empty line
AdbListings ==
    {[rc |-> 0, lines |-> <<HeaderLine>> \o DeviceLines(st) \o << << >> >>] :
        st \in {f \in [Serials -> {"device", "unauthorized", "absent"}] :
                    \A serial \in Serials : f[serial] \in Statuses(serial)}}

\* ... or the daemon fails
AdbOutputs == AdbListings \cup {[rc |-> 1, lines |-> << >>]}

\* a variant that lets every phone that is not offline through
IsReadyNotOffline(status) == status # "offline"

\* status != "device" is skipped
IsReady(status) == status = "device"

\* list_connected_devices() on the process result
ListConnectedDevices(proc) ==
    IF proc.rc # 0 THEN << >>
    ELSE LET kept == SelectSeq(proc.lines,
                               LAMBDA line : line # << >> /\ ~IsHeader(line) /\ Len(line) >= 2)
         IN  [i \in 1..Len(kept) |-> [serial |-> kept[i][1], status |-> kept[i][2]]]

\* the serials the process result shows as ready
ReportedReady(proc) ==
    IF proc.rc # 0 THEN {}
    ELSE {line[1] : line \in {l \in Range(proc.lines) : Len(l) = 2 /\ l[2] = "device"}}

\* get_device_name(serial): the model name, or the serial when the query
\* fails or prints nothing
\* what the getprop query of each phone can do: phone A prints its model, phone
\* B prints nothing, and either query can run into the timeout
NameOutcomes(serial) == IF serial = "A" THEN {"model", "raise"} ELSE {"empty", "raise"}

\* outcome "model": getprop prints a model name
GetDeviceName(serial, outcome) == IF outcome = "model" THEN "Pixel-" \o serial ELSE serial

-----------------------------------------------------------------------------
(* The discovery service: state after DeviceDiscovery.__init__              *)

\* pc: "off" | "idle" | "scan" (in the for loop of _update_usb_devices) |
\*     "purge" (stop() before _remove_devices_by_type) |
\*     "notify" (in _notify_change) | "deadlock" (waiting for a lock it holds)
\* listing, current: adb_devices not yet visited, current_usb_ids
\* snap, next: the list _notify_change passes, the next callback to call
\* after: where the thread goes on after _notify_change
\* before: the registry content before the mutation being notified
\* scanning, polled, overlap: a cycle of _update_usb_devices is under way, the
\* serials its listing showed ready, another thread ran _update_usb_devices
\* during it
\* notified: the running cycle has called _notify_change
\* purging: the device_type of the running _remove_devices_by_type, or "none"
IdleThread ==
    [pc |-> "idle", listing |-> << >>, current |-> {}, snap |-> {}, next |-> 0,
     after |-> "idle", before |-> {}, scanning |-> FALSE, polled |-> {},
     overlap |-> FALSE, notified |-> FALSE, purging |-> "none"]

NoDevices == [k \in {} |-> 0]

InitDiscovery ==
    /\ devices = NoDevices
    /\ callbacks = << >>
    /\ lock = "free"
    /\ usb_poll_running = FALSE
    /\ mdns_running = FALSE
    /\ zeroconf = "none"
    /\ th = [t \in Threads |-> IF t = "poll" THEN [IdleThread EXCEPT !.pc = "off"]
                                ELSE IdleThread]
    /\ stale = {}
    /\ last_adv = [n \in Services |-> NoEndpoint]

-----------------------------------------------------------------------------
(* The receiver: state after VideoReceiver.__init__ (PyAV present, so the  *)
(* constructor has run _init_decoder once)                                 *)

NoParse == [kind |-> "none"]

InitReceiver ==
    /\ is_running = FALSE
    /\ ssl_socket = "none"
    /\ sock = "none"
    /\ frame_callback = FALSE
    /\ decode_error_count = 0
    /\ frames_decoded = 0
    /\ thread_pc = "none"
    /\ data = << >>
    /\ packet_size = 0
    /\ stream = << >>
    /\ link = "none"
    /\ packet_data = << >>
    /\ delivered = << >>
    /\ last_result = "none"
    /\ reinitialised = FALSE
    /\ streak = 0

InitParser ==
    /\ sent = << >>
    /\ wire = << >>
    /\ parsed = NoParse

\* no certificate handler and no frame under way: the state of tls and view in
\* the specifications that are about something else
NoTls ==
    [stage |-> "off", configured |-> FALSE, path_given |-> FALSE, file |-> "missing",
     peer |-> "other", name_ok |-> FALSE, cert_path |-> FALSE, check_hostname |-> TRUE,
     verify_mode |-> "CERT_REQUIRED", server_hostname |-> FALSE, handshake |-> "none"]

NoView ==
    [stage |-> "off", frame |-> << >>, orientation_degrees |-> 0, is_back_camera |-> FALSE,
     virtual_cam |-> FALSE, preview_frame |-> << >>, vcam_frame |-> << >>]

\* no parameters cached (self._cached_scale_params is None)
NoParams == [set |-> FALSE, new_w |-> 0, new_h |-> 0, paste_x |-> 0, paste_y |-> 0]

NoSink ==
    [stage |-> "off", width |-> 0, height |-> 0, has_cv2 |-> FALSE, camera |-> FALSE,
     is_running |-> FALSE, canvas |-> FALSE, painted |-> {}, last_frame_size |-> <<0, 0>>,
     cached_scale_params |-> NoParams, frame |-> <<0, 0>>, result |-> "none",
     pushed |-> 0, region |-> NoParams, previous |-> <<0, 0>>]

\* no phones under observation
NoAdb == [stage |-> "off", shown |-> [serial \in Serials |-> "absent"], settled |-> FALSE]

NoUi ==
    [stage |-> "off", is_streaming |-> FALSE, ui_update_pending |-> FALSE, scheduled |-> 0,
     pc |-> <<"none", "none">>, is_running |-> <<FALSE, FALSE>>, overlap |-> FALSE,
     dropped |-> FALSE]

InitOther ==
    /\ late = FALSE
    /\ tls = NoTls
    /\ view = NoView
    /\ sink = NoSink
    /\ ui = NoUi
    /\ adb = NoAdb

\* op: connect, start_receiving or disconnect, the method called ("off":
\* calls are not recorded, "none": none yet),
\* ok: whether the connection attempt it makes, if any, succeeds,
\* again: the call before it was of the same method, was_running:
\* self.is_running when it was made, seq: alternates
NotRecording ==
    [op |-> "off", ok |-> TRUE, again |-> FALSE, was_running |-> FALSE, seq |-> 0]
NoCall ==
    [op |-> "none", ok |-> TRUE, again |-> FALSE, was_running |-> FALSE, seq |-> 0]

Init ==
    /\ InitReceiver
    /\ called = NotRecording
    /\ InitParser
    /\ InitDiscovery
    /\ InitOther

\* the same, with the calls of the receiver's interface recorded
InitSession ==
    /\ InitReceiver
    /\ called = NoCall
    /\ InitParser
    /\ InitDiscovery
    /\ InitOther

\* a call of method op is recorded
Called(op, ok) ==
    called' = IF called.op = "off" THEN called
              ELSE [op |-> op, ok |-> ok, again |-> called.op = op,
                    was_running |-> is_running, seq |-> 1 - called.seq]

loopvars == <<thread_pc, data, packet_size>>
obsvars == <<packet_data, delivered, last_result>>
decvars == <<decode_error_count, frames_decoded, reinitialised, streak>>
netvars == <<stream, link>>

\* is_connected()
IsConnected == is_running /\ ssl_socket # "none"

\* set_frame_callback(callback)
SetFrameCallback ==
    /\ frame_callback' = TRUE
    /\ UNCHANGED <<is_running, ssl_socket, sock, loopvars, obsvars, decvars, netvars, pvars, xvars,
                   dvars, called>>

\* a variant that closes the TLS socket and keeps the TCP socket
DisconnectKeepsTcp ==
    /\ is_running' = FALSE
    /\ ssl_socket' = "none"
    /\ sock' = sock
    /\ stream' = << >>
    /\ link' = "none"

\* disconnect(): the flag, both sockets; the join is bounded (2 s) and returns
\* whether or not the thread has ended
DisconnectEffect ==
    /\ is_running' = FALSE
    /\ ssl_socket' = "none"
    /\ sock' = "none"
    /\ stream' = << >>
    /\ link' = "none"

Disconnect ==
    /\ DisconnectEffect
    /\ Called("disconnect", TRUE)
    /\ UNCHANGED <<frame_callback, loopvars, obsvars, decvars, pvars, xvars, dvars>>

\* the try block of connect(): a fresh TCP socket wrapped in TLS, which
\* carries a new byte stream
ConnectEffect ==
    /\ sock' = "open"
    /\ ssl_socket' = "open"
    /\ stream' = << >>
    /\ link' = "up"

\* a variant whose except branch only returns False
ConnectFailsOpen(ok) ==
    /\ thread_pc \in {"none", "exited"}
    /\ IF ok
         THEN ConnectEffect /\ UNCHANGED is_running
         ELSE /\ sock' = "open"
              /\ UNCHANGED <<is_running, ssl_socket, stream, link>>
    /\ Called("connect", ok)
    /\ UNCHANGED <<frame_callback, loopvars, obsvars, decvars, pvars, xvars, dvars>>

\* connect(): ok is whether socket.connect and wrap_socket both succeed; the
\* except branch calls disconnect() and returns False
Connect(ok) ==
    /\ thread_pc \in {"none", "exited"}
    /\ IF ok
         THEN ConnectEffect /\ UNCHANGED is_running
         ELSE DisconnectEffect
    /\ Called("connect", ok)
    /\ UNCHANGED <<frame_callback, loopvars, obsvars, decvars, pvars, xvars, dvars>>

\* _init_decoder(): av.CodecContext.create('h264', 'r') succeeded in the
\* constructor (codec_context is set, else _decode_frame returns at line 197)
\* and is taken to succeed again
InitDecoder ==
    /\ decode_error_count' = 0
    /\ frames_decoded' = 0

\* if self.is_running: return
AlreadyStreaming(running) == running

\* start_receiving(); the thread of an earlier session has ended before a new
\* one is spawned (one receive thread is modelled)
StartReceiving(ok) ==
    /\ thread_pc \in {"none", "exited"} \/ is_running
    /\ Called("start_receiving", ok)
    /\ IF AlreadyStreaming(is_running)
         THEN UNCHANGED <<is_running, ssl_socket, sock, frame_callback, loopvars, obsvars,
                          decvars, netvars, pvars, xvars, dvars>>
         ELSE IF ssl_socket = "none" /\ ~ok
           THEN /\ DisconnectEffect
                /\ UNCHANGED <<frame_callback, loopvars, obsvars, decvars, pvars, xvars, dvars>>
           ELSE /\ IF ssl_socket = "none"
                     THEN ConnectEffect
                     ELSE UNCHANGED <<sock, ssl_socket, stream, link>>
                /\ InitDecoder
                /\ reinitialised' = FALSE
                /\ streak' = 0
                /\ is_running' = TRUE
                /\ thread_pc' = "top"
                /\ UNCHANGED <<frame_callback, data, packet_size, obsvars, pvars, xvars, dvars>>

\* the peer writes one packet: a length prefix N and N bytes (none, a flags
\* byte alone, or a flags byte and an access unit); it writes the next packet
\* once the previous one has been read
PeerSend(body) ==
    /\ ssl_socket = "open"
    /\ link = "up"
    /\ stream = << >>
    /\ stream' = EncodePacket(body)
    /\ UNCHANGED <<is_running, ssl_socket, sock, frame_callback, loopvars,
                   obsvars, decvars, link, pvars, xvars, dvars, called>>

StreamBodies ==
    {<< >>} \cup {<<f>> \o au : f \in StreamFlags, au \in SeqsUpTo(StreamBytes, MaxPayload)}

\* the peer closes the connection (closed = TRUE: recv returns b'' once the
\* stream is drained), or the connection fails (recv raises from then on)
LinkDown(closed) ==
    /\ ssl_socket = "open"
    /\ link = "up"
    /\ link' = IF closed THEN "eof" ELSE "broken"
    /\ UNCHANGED <<is_running, ssl_socket, sock, frame_callback, loopvars,
                   obsvars, decvars, stream, pvars, xvars, dvars, called>>

\* the peer goes away in the middle of a packet: it has written the first n
\* bytes of it, prefix included, and closes
PeerAbort(body, n) ==
    /\ ssl_socket = "open"
    /\ link = "up"
    /\ stream = << >>
    /\ n \in 1..(Len(EncodePacket(body)) - 1)
    /\ stream' = SubSeq(EncodePacket(body), 1, n)
    /\ link' = "eof"
    /\ UNCHANGED <<is_running, ssl_socket, sock, frame_callback, loopvars,
                   obsvars, decvars, pvars, xvars, dvars, called>>

-----------------------------------------------------------------------------
(* The receive thread: _receive_loop and _receive_exact                     *)

\* a variant that leaves the flag as it is
LoopExitStillRunning ==
    /\ is_running' = is_running
    /\ thread_pc' = "exited"
    /\ data' = << >>
    /\ packet_size' = 0

\* the statements after the while loop (lines 169-170)
LoopExit ==
    /\ is_running' = FALSE
    /\ thread_pc' = "exited"
    /\ data' = << >>
    /\ packet_size' = 0

\* while self.is_running and self.ssl_socket: ... size_data = self._receive_exact(4)
\* up to its first recv
LoopTop ==
    /\ thread_pc = "top"
    /\ IF is_running /\ ssl_socket # "none"
         THEN /\ thread_pc' = "recv_size"
              /\ UNCHANGED <<is_running, data, packet_size>>
         ELSE LoopExit
    /\ packet_data' = << >>
    /\ delivered' = << >>
    /\ last_result' = "none"
    /\ UNCHANGED <<ssl_socket, sock, frame_callback, decvars, netvars, pvars, xvars, dvars, called>>

\* the size the running _receive_exact was called with
Need == IF thread_pc = "recv_size" THEN SizeFieldLen ELSE packet_size

InRecv ==
    /\ thread_pc \in {"recv_size", "recv_payload"}
    /\ Len(data) < Need

\* chunk = self.ssl_socket.recv(size - len(data)); data.extend(chunk)
RecvChunk(n) ==
    /\ InRecv
    /\ ssl_socket = "open"
    /\ link # "broken"
    /\ n \in 1..Min(MaxChunk, Min(Need - Len(data), Len(stream)))
    /\ data' = data \o SubSeq(stream, 1, n)
    /\ stream' = SubSeq(stream, n + 1, Len(stream))
    /\ UNCHANGED <<is_running, ssl_socket, sock, frame_callback, thread_pc,
                   packet_size, obsvars, decvars, link, pvars, xvars, dvars, called>>

\* except socket.timeout: continue
RecvTimeout ==
    /\ InRecv
    /\ ssl_socket = "open"
    /\ link = "up"
    /\ stream = << >>
    /\ UNCHANGED vars

\* if not chunk: return None    (the caller breaks)
RecvEof ==
    /\ InRecv
    /\ ssl_socket = "open"
    /\ link = "eof"
    /\ stream = << >>
    /\ LoopExit
    /\ last_result' = IF thread_pc = "recv_size" /\ data = << >> THEN "eof" ELSE "eof_partial"
    /\ UNCHANGED <<ssl_socket, sock, frame_callback, packet_data, delivered,
                   decvars, netvars, pvars, xvars, dvars, called>>

\* self.ssl_socket.recv raises: self.ssl_socket is None or closed after
\* disconnect(), or the connection failed
ReadRaises == ssl_socket = "none" \/ link = "broken"

\* except Exception: return None    (the caller breaks)
RecvError ==
    /\ InRecv
    /\ ReadRaises
    /\ LoopExit
    /\ last_result' = "error"
    /\ UNCHANGED <<ssl_socket, sock, frame_callback, packet_data, delivered,
                   decvars, netvars, pvars, xvars, dvars, called>>

\* packet_size = struct.unpack('>I', size_data)[0], then
\* self._receive_exact(packet_size) up to its first recv (line 174 returns None
\* without a socket, and the caller breaks)
UnpackSize ==
    /\ thread_pc = "recv_size"
    /\ Len(data) = SizeFieldLen
    /\ IF ssl_socket = "none"
         THEN LoopExit /\ last_result' = "error"
         ELSE /\ thread_pc' = "recv_payload"
              /\ packet_size' = UnpackBE(data)
              /\ data' = << >>
              /\ UNCHANGED <<is_running, last_result>>
    /\ UNCHANGED <<ssl_socket, sock, frame_callback, packet_data, delivered,
                   decvars, netvars, pvars, xvars, dvars, called>>

-----------------------------------------------------------------------------
(* The loop body once packet_data has been read (lines 146-163) and         *)
(* _decode_frame (lines 192-229)                                           *)

PacketRead ==
    /\ thread_pc = "recv_payload"
    /\ Len(data) = packet_size

\* if not packet_data: break
PacketEmpty ==
    /\ PacketRead
    /\ Len(data) = 0
    /\ packet_data' = data
    /\ LoopExit
    /\ last_result' = "break"
    /\ UNCHANGED <<ssl_socket, sock, frame_callback, delivered, decvars, netvars, pvars, xvars, dvars, called>>

\* if len(packet_data) < 2: continue
PacketShort ==
    /\ PacketRead
    /\ Len(data) # 0
    /\ Len(data) < 2
    /\ packet_data' = data
    /\ thread_pc' = "top"
    /\ data' = << >>
    /\ packet_size' = 0
    /\ last_result' = "skip"
    /\ UNCHANGED <<is_running, ssl_socket, sock, frame_callback, delivered, decvars,
                   netvars, pvars, xvars, dvars, called>>

\* the packet reaches _decode_frame
PacketDecoded ==
    /\ PacketRead
    /\ Len(data) >= 2
    /\ packet_data' = data
    /\ thread_pc' = "top"
    /\ data' = << >>
    /\ packet_size' = 0
    /\ UNCHANGED <<is_running, ssl_socket, sock, frame_callback, netvars, pvars, xvars, dvars, called>>

\* if not self.frame_callback: return
DecodeNoCallback ==
    /\ PacketDecoded
    /\ ~frame_callback
    /\ last_result' = "no_callback"
    /\ UNCHANGED <<delivered, decvars>>

\* (mutant) the callback called with the defaults of _decode_frame's parameters
CallbackCallsDefault(args, k) ==
    [i \in 1..k |-> [orientation_degrees |-> 0, mirror |-> FALSE]]

\* the frame_callback calls of one _decode_frame that yields k frames
CallbackCalls(args, k) ==
    [i \in 1..k |-> [orientation_degrees |-> args.orientation_degrees,
                     mirror |-> args.mirror]]

\* the for loop over self.codec_context.decode(packet), k frames long: the
\* body counts the frame, clears the error count and calls the callback
ErrorCountAfterDecode(count, k) == IF k > 0 THEN 0 ELSE count

DecodeOk(k) ==
    /\ PacketDecoded
    /\ frame_callback
    /\ frames_decoded + k <= MaxFramesDecoded
    /\ frames_decoded' = frames_decoded + k
    /\ decode_error_count' = ErrorCountAfterDecode(decode_error_count, k)
    /\ delivered' = CallbackCalls(ParsePacket(data), k)
    /\ last_result' = "decoded"
    /\ reinitialised' = FALSE
    /\ streak' = IF decode_error_count' = 0 THEN 0 ELSE -1

\* (mutant) the failure is not counted
ErrorCountStuck(count) == count

\* self.decode_error_count += 1
ErrorCountAfterFailure(count) == count + 1

\* (mutant) the threshold compared with > instead of >=
TooManyErrorsLate(count) == count > ReinitThreshold

\* if self.decode_error_count >= 50
TooManyErrors(count) == count >= ReinitThreshold

\* except (InvalidDataError, FFmpegError): decode() raised, no frame was yielded
DecodeFail ==
    /\ PacketDecoded
    /\ frame_callback
    /\ IF TooManyErrors(ErrorCountAfterFailure(decode_error_count))
         THEN InitDecoder /\ reinitialised' = TRUE
         ELSE /\ decode_error_count' = ErrorCountAfterFailure(decode_error_count)
              /\ reinitialised' = FALSE
              /\ UNCHANGED frames_decoded
    /\ delivered' = << >>
    /\ last_result' = "decode_error"
    /\ streak' = IF streak = -1
                   THEN (IF decode_error_count' = 0 THEN 0 ELSE -1)
                   ELSE IF streak >= ReinitThreshold THEN 1 ELSE streak + 1

-----------------------------------------------------------------------------
Next ==
    \/ SetFrameCallback
    \/ \E ok \in BOOLEAN : Connect(ok)
    \/ \E ok \in BOOLEAN : StartReceiving(ok)
    \/ Disconnect
    \/ \E body \in StreamBodies : PeerSend(body)
    \/ \E closed \in BOOLEAN : LinkDown(closed)
    \/ LoopTop
    \/ \E n \in 1..MaxChunk : RecvChunk(n)
    \/ RecvTimeout
    \/ RecvEof
    \/ RecvError
    \/ UnpackSize
    \/ PacketEmpty
    \/ PacketShort
    \/ DecodeNoCallback
    \/ \E k \in 0..MaxFramesPerPacket : DecodeOk(k)
    \/ DecodeFail

Spec == Init /\ [][Next]_vars

\* the steps of the receive thread, with a decoder that does not fail
ThreadStep ==
    \/ LoopTop
    \/ \E n \in 1..MaxChunk : RecvChunk(n)
    \/ RecvTimeout
    \/ RecvEof
    \/ RecvError
    \/ UnpackSize
    \/ PacketEmpty
    \/ PacketShort
    \/ DecodeNoCallback
    \/ \E k \in 0..MaxFramesPerPacket : DecodeOk(k)

\* start_receiving() after a disconnect() whose join (line 113, at most 2 s)
\* returned before the loop ended: the loop of the session that was
\* disconnected is still executing (thread_pc is in it) when the new session
\* spawns its own. From here on thread_pc, data and packet_size are the new
\* loop's, and late stands for the earlier one (at most one is modelled).
StartReceivingAgain(ok) ==
    /\ thread_pc \notin {"none", "exited"}
    /\ ~AlreadyStreaming(is_running)
    /\ ~late
    /\ Called("start_receiving", ok)
    /\ IF ssl_socket = "none" /\ ~ok
         THEN /\ DisconnectEffect
              /\ UNCHANGED <<frame_callback, loopvars, obsvars, decvars, pvars, xvars, dvars>>
         ELSE /\ IF ssl_socket = "none"
                   THEN ConnectEffect
                   ELSE UNCHANGED <<sock, ssl_socket, stream, link>>
              /\ InitDecoder
              /\ reinitialised' = FALSE
              /\ streak' = 0
              /\ is_running' = TRUE
              /\ thread_pc' = "top"
              /\ data' = << >>
              /\ packet_size' = 0
              /\ late' = TRUE
              /\ UNCHANGED <<frame_callback, obsvars, pvars, tls, view, svars, dvars>>

\* the earlier loop ends, as any loop does: it is at the while test and the
\* flag is cleared or the socket gone, or its read returns b'' or raises; it
\* then runs self.is_running = False (line 169). Until then its reads, which
\* are on the socket of the new session (self.ssl_socket, line 180), time
\* out: the bytes the peer sends are taken to go to the new loop.
LateExit ==
    /\ late
    /\ \/ ~is_running
       \/ ReadRaises
       \/ link = "eof" /\ stream = << >>
    /\ is_running' = FALSE
    /\ late' = FALSE
    /\ UNCHANGED <<ssl_socket, sock, frame_callback, loopvars, obsvars, decvars, netvars,
                   pvars, tls, view, svars, dvars, called>>

\* the receiver with its calls recorded
NextSession ==
    \/ SetFrameCallback
    \/ \E ok \in BOOLEAN : Connect(ok)
    \/ \E ok \in BOOLEAN : StartReceiving(ok)
    \/ \E ok \in BOOLEAN : StartReceivingAgain(ok)
    \/ Disconnect
    \/ \E body \in StreamBodies : PeerSend(body)
    \/ \E closed \in BOOLEAN : LinkDown(closed)
    \/ \E body \in StreamBodies, n \in 1..(SizeFieldLen + MaxPayload) : PeerAbort(body, n)
    \/ ThreadStep
    \/ LateExit

SpecSession == InitSession /\ [][NextSession]_vars

\* ... and receive threads that are scheduled as long as they can take a step
SpecSessionFair == SpecSession /\ WF_vars(ThreadStep) /\ WF_vars(LateExit)

-----------------------------------------------------------------------------
(* The discovery service: operations                                        *)

OtherScanner(t) == IF t = "poll" THEN "ui" ELSE "poll"

\* the threads, once t has entered _update_usb_devices: a cycle of the other
\* scanner that is under way has been overlapped
Overlapped(t) ==
    [th EXCEPT ![OtherScanner(t)].overlap = @ \/ th[OtherScanner(t)].scanning]

\* a mutation of the registry under the lock, followed by _notify_change():
\* the thread holds the lock, has taken the snapshot and is about to call
\* the first callback. base: the threads before the step, rec: thread t
BeginNotify(t, devs, after, rec, base) ==
    /\ devices' = devs
    /\ lock' = t
    /\ th' = [base EXCEPT ![t] = [rec EXCEPT !.pc = "notify", !.snap = SnapshotOf(devs),
                                             !.next = 1, !.after = after,
                                             !.before = SnapshotOf(devices)]]
    /\ stale' = Range(callbacks)

\* _remove_devices_by_type(device_type)
RemoveDevicesByType(t, device_type, base) ==
    /\ lock = "free"
    /\ LET to_remove == IdsOfType(devices, device_type)
       IN  IF to_remove # {}
             THEN BeginNotify(t, Del(devices, to_remove), "idle",
                              [base[t] EXCEPT !.purging = device_type], base)
             ELSE /\ th' = [base EXCEPT ![t] = IdleThread]
                  /\ UNCHANGED <<devices, lock, stale>>

\* on_devices_changed(callback)
OnDevicesChanged ==
    /\ th["ui"].pc = "idle"
    /\ Len(callbacks) < Len(Listeners)
    /\ callbacks' = Append(callbacks, Listeners[Len(callbacks) + 1])
    /\ UNCHANGED <<rvars, pvars, xvars, devices, lock, usb_poll_running, mdns_running, th,
                   stale, last_adv, zeroconf>>

\* get_devices(), from the user-interface thread
GetDevices ==
    /\ th["ui"].pc = "idle"
    /\ lock = "free"
    /\ UNCHANGED vars

\* a variant that sets the flag whether or not Zeroconf came up
MdnsRunningWhatever(running, zeroconf_ok) == TRUE

\* start_mdns_discovery(): self._mdns_running afterwards
MdnsRunningAfterStart(running, zeroconf_ok) == running \/ zeroconf_ok

\* start(): start_usb_polling(), then start_mdns_discovery(), where zeroconf_ok
\* is whether the import and Zeroconf() succeed; the poll thread of an
\* earlier start has ended before a new one is spawned
Start(zeroconf_ok) ==
    /\ th["ui"].pc = "idle"
    /\ usb_poll_running \/ th["poll"].pc = "off"
    /\ usb_poll_running' = TRUE
    /\ th' = IF usb_poll_running THEN th ELSE [th EXCEPT !["poll"] = IdleThread]
    /\ mdns_running' = MdnsRunningAfterStart(mdns_running, zeroconf_ok)
    /\ zeroconf' = IF ~mdns_running /\ zeroconf_ok THEN "open" ELSE zeroconf
    /\ UNCHANGED <<rvars, pvars, xvars, devices, callbacks, lock, stale, last_adv>>

\* stop(): stop_usb_polling() (the join is bounded), then stop_mdns_discovery()
\* up to its call of _remove_devices_by_type("wifi")
Stop ==
    /\ th["ui"].pc = "idle"
    /\ usb_poll_running' = FALSE
    /\ mdns_running' = FALSE
    /\ zeroconf' = IF mdns_running THEN "none" ELSE zeroconf
    /\ th' = IF mdns_running THEN [th EXCEPT !["ui"].pc = "purge"] ELSE th
    /\ UNCHANGED <<rvars, pvars, xvars, devices, callbacks, lock, stale, last_adv>>

\* ... and that call
StopPurge ==
    /\ th["ui"].pc = "purge"
    /\ RemoveDevicesByType("ui", "wifi", th)
    /\ last_adv' = [n \in Services |-> NoEndpoint]
    /\ UNCHANGED <<rvars, pvars, xvars, callbacks, usb_poll_running, mdns_running, zeroconf>>

\* while self._usb_poll_running: false
PollExit ==
    /\ th["poll"].pc = "idle"
    /\ ~usb_poll_running
    /\ th' = [th EXCEPT !["poll"].pc = "off"]
    /\ UNCHANGED <<rvars, pvars, xvars, devices, callbacks, lock, usb_poll_running,
                   mdns_running, stale, last_adv, zeroconf>>

\* _update_usb_devices() by the poll loop (t = "poll") or by refresh()
\* (t = "ui"), up to the for loop: available is adb_is_available(), proc the
\* result of `adb devices`, timed_out whether subprocess.run raises
\* TimeoutExpired instead, which ends the call
ScanStart(t, available, timed_out, proc) ==
    /\ th[t].pc = "idle"
    /\ t = "poll" => usb_poll_running
    /\ IF ~available
         THEN RemoveDevicesByType(t, "usb", Overlapped(t))
         ELSE /\ ~timed_out
              /\ th' = [Overlapped(t) EXCEPT ![t] =
                          [th[t] EXCEPT !.pc = "scan",
                                        !.listing = ListConnectedDevices(proc),
                                        !.current = {},
                                        !.scanning = TRUE,
                                        !.polled = ReportedReady(proc),
                                        !.notified = FALSE,
                                        !.overlap = th[OtherScanner(t)].scanning]]
              /\ UNCHANGED <<devices, lock, stale>>
    /\ UNCHANGED <<rvars, pvars, xvars, callbacks, usb_poll_running, mdns_running, last_adv, zeroconf>>

\* one iteration of `for adb_dev in adb_devices`: name is the outcome of
\* get_device_name ("raise": TimeoutExpired, which ends the call and releases
\* the lock; "model": a model name; "empty": the serial)
ScanDevice(t, name) ==
    /\ th[t].pc = "scan"
    /\ th[t].listing # << >>
    /\ name \in NameOutcomes(Head(th[t].listing).serial)
    /\ LET adb_dev   == Head(th[t].listing)
           device_id == UsbId(adb_dev.serial)
           rest      == [th[t] EXCEPT !.listing = Tail(th[t].listing)]
           added     == [rest EXCEPT !.current = @ \cup {device_id}]
       IN  IF ~IsReady(adb_dev.status)
             THEN /\ th' = [th EXCEPT ![t] = rest]
                  /\ UNCHANGED <<devices, lock, stale>>
             ELSE /\ lock = "free"
                  /\ IF device_id \in DOMAIN devices
                       THEN /\ th' = [th EXCEPT ![t] = added]
                            /\ UNCHANGED <<devices, lock, stale>>
                       ELSE IF name = "raise"
                         THEN /\ th' = [th EXCEPT ![t] = IdleThread]
                              /\ UNCHANGED <<devices, lock, stale>>
                         ELSE BeginNotify(t,
                                  Put(devices, device_id,
                                      UsbDevice(adb_dev.serial,
                                                GetDeviceName(adb_dev.serial, name))),
                                  "scan", [added EXCEPT !.notified = TRUE], th)
    /\ UNCHANGED <<rvars, pvars, xvars, callbacks, usb_poll_running, mdns_running, last_adv, zeroconf>>

\* the entries the removal block deletes
UsbToRemove(devs, current_usb_ids) ==
    {k \in IdsOfType(devs, "usb") : k \notin current_usb_ids}

\* the block after the for loop: "Remove USB devices that are no longer connected"
ScanRemove(t) ==
    /\ th[t].pc = "scan"
    /\ th[t].listing = << >>
    /\ lock = "free"
    /\ LET to_remove == UsbToRemove(devices, th[t].current)
       IN  IF to_remove # {}
             THEN BeginNotify(t, Del(devices, to_remove), "idle",
                              [th[t] EXCEPT !.scanning = FALSE, !.notified = TRUE], th)
             ELSE /\ th' = [th EXCEPT ![t] = IdleThread]
                  /\ UNCHANGED <<devices, lock, stale>>
    /\ UNCHANGED <<rvars, pvars, xvars, callbacks, usb_poll_running, mdns_running, last_adv, zeroconf>>

\* _notify_change(): one callback(devices) call. reenters: the listener calls
\* get_devices() from the callback, which waits for self._lock; the thread
\* holds it and never runs again, so its locals are dropped
Callback(t, reenters) ==
    /\ th[t].pc = "notify"
    /\ th[t].next <= Len(callbacks)
    /\ reenters => callbacks[th[t].next] \in ReentrantListeners
    /\ stale' = IF th[t].snap = SnapshotOf(devices)
                  THEN stale \ {callbacks[th[t].next]} ELSE stale
    /\ th' = IF reenters /\ lock = t
               THEN [th EXCEPT ![t] = [IdleThread EXCEPT !.pc = "deadlock"]]
               ELSE [th EXCEPT ![t].next = @ + 1]
    /\ UNCHANGED <<rvars, pvars, xvars, devices, callbacks, lock, usb_poll_running,
                   mdns_running, last_adv, zeroconf>>

\* _notify_change() returns and the `with self._lock` block ends
Release(t) ==
    /\ th[t].pc = "notify"
    /\ th[t].next > Len(callbacks)
    /\ lock' = "free"
    /\ th' = [th EXCEPT ![t] = IF th[t].after = "idle" THEN IdleThread
                               ELSE [@ EXCEPT !.pc = th[t].after, !.snap = {},
                                              !.next = 0, !.after = "idle",
                                              !.before = {}]]
    /\ UNCHANGED <<rvars, pvars, xvars, devices, callbacks, usb_poll_running, mdns_running,
                   stale, last_adv, zeroconf>>

\* a variant that keeps the entry a service name already has
MdnsServiceAddedOnce(devs, name, info) ==
    IF WifiId(name) \in DOMAIN devs THEN devs
    ELSE Put(devs, WifiId(name), WifiDevice(name, info))

\* self._devices[device_id] = DiscoveredDevice(...)
MdnsServiceAdded(devs, name, info) == Put(devs, WifiId(name), WifiDevice(name, info))

\* VanCameraListener.add_service / update_service -> _on_mdns_service_added,
\* called by the browser of an open Zeroconf:
\* resolved is what zc.get_service_info returns ("none": None, "noaddr": no
\* addresses, "ok": the endpoint info)
OnMdnsServiceAdded(name, resolved, info) ==
    /\ zeroconf = "open"
    /\ th["mdns"].pc = "idle"
    /\ IF resolved # "ok"
         THEN UNCHANGED <<devices, lock, th, stale, last_adv, zeroconf>>
         ELSE /\ lock = "free"
              /\ last_adv' = [last_adv EXCEPT ![name] = info]
              /\ BeginNotify("mdns", MdnsServiceAdded(devices, name, info), "idle",
                             th["mdns"], th)
    /\ UNCHANGED <<rvars, pvars, xvars, callbacks, usb_poll_running, mdns_running, zeroconf>>

\* VanCameraListener.remove_service -> _on_mdns_service_removed
OnMdnsServiceRemoved(name) ==
    /\ zeroconf = "open"
    /\ th["mdns"].pc = "idle"
    /\ lock = "free"
    /\ IF WifiId(name) \in DOMAIN devices
         THEN BeginNotify("mdns", Del(devices, {WifiId(name)}), "idle", th["mdns"], th)
         ELSE UNCHANGED <<devices, lock, th, stale>>
    /\ last_adv' = [last_adv EXCEPT ![name] = NoEndpoint]
    /\ UNCHANGED <<rvars, pvars, xvars, callbacks, usb_poll_running, mdns_running, zeroconf>>

NextDisc ==
    \/ OnDevicesChanged
    \/ GetDevices
    \/ \E zeroconf_ok \in BOOLEAN : Start(zeroconf_ok)
    \/ Stop
    \/ StopPurge
    \/ PollExit
    \/ \E t \in Scanners, available \in BOOLEAN, timed_out \in BOOLEAN, proc \in AdbOutputs :
          ScanStart(t, available, timed_out, proc)
    \/ \E t \in Scanners, name \in {"model", "empty", "raise"} : ScanDevice(t, name)
    \/ \E t \in Scanners : ScanRemove(t)
    \/ \E t \in Threads, reenters \in BOOLEAN : Callback(t, reenters)
    \/ \E t \in Threads : Release(t)
    \/ \E name \in Services, resolved \in {"none", "noaddr", "ok"}, info \in Endpoints :
          OnMdnsServiceAdded(name, resolved, info)
    \/ \E name \in Services : OnMdnsServiceRemoved(name)

SpecDisc == Init /\ [][NextDisc]_vars

-----------------------------------------------------------------------------
(* One iteration of the for loop of _update_usb_devices in two steps: up to *)
(* the call of get_device_name, and from its return                         *)

\* lines 113-122: a phone that is not ready is skipped; for a ready one the
\* thread takes the lock, and if the phone is not tracked yet it calls
\* get_device_name (pc "query": the getprop subprocess is running)
ScanLock(t) ==
    /\ th[t].pc = "scan"
    /\ th[t].listing # << >>
    /\ LET adb_dev   == Head(th[t].listing)
           device_id == UsbId(adb_dev.serial)
           rest      == [th[t] EXCEPT !.listing = Tail(th[t].listing)]
           added     == [rest EXCEPT !.current = @ \cup {device_id}]
       IN  IF ~IsReady(adb_dev.status)
             THEN /\ th' = [th EXCEPT ![t] = rest]
                  /\ UNCHANGED <<devices, lock, stale>>
             ELSE /\ lock = "free"
                  /\ IF device_id \in DOMAIN devices
                       THEN /\ th' = [th EXCEPT ![t] = added]
                            /\ UNCHANGED <<devices, lock, stale>>
                       ELSE /\ th' = [th EXCEPT ![t].pc = "query"]
                            /\ lock' = t
                            /\ UNCHANGED <<devices, stale>>
    /\ UNCHANGED <<rvars, pvars, xvars, callbacks, usb_poll_running, mdns_running, last_adv, zeroconf>>

\* get_device_name returns a name and lines 123-131 insert the device and
\* notify, or subprocess.run raises TimeoutExpired (adb_forward.py:46), which
\* nothing catches before _usb_poll_loop: the with block releases the lock
\* and the call of _update_usb_devices is over
QueryReturns(t, name) ==
    /\ th[t].pc = "query"
    /\ name \in NameOutcomes(Head(th[t].listing).serial)
    /\ LET adb_dev   == Head(th[t].listing)
           device_id == UsbId(adb_dev.serial)
           added     == [th[t] EXCEPT !.listing = Tail(th[t].listing),
                                      !.current = @ \cup {device_id}]
       IN  IF name = "raise"
             THEN /\ th' = [th EXCEPT ![t] = IdleThread]
                  /\ lock' = "free"
                  /\ UNCHANGED <<devices, stale>>
             ELSE BeginNotify(t,
                      Put(devices, device_id,
                          UsbDevice(adb_dev.serial, GetDeviceName(adb_dev.serial, name))),
                      "scan", [added EXCEPT !.notified = TRUE], th)
    /\ UNCHANGED <<rvars, pvars, xvars, callbacks, usb_poll_running, mdns_running, last_adv, zeroconf>>

NextLookup ==
    \/ OnDevicesChanged
    \/ GetDevices
    \/ \E zeroconf_ok \in BOOLEAN : Start(zeroconf_ok)
    \/ \E t \in Scanners, available \in BOOLEAN, timed_out \in BOOLEAN, proc \in AdbOutputs :
          ScanStart(t, available, timed_out, proc)
    \/ \E t \in Scanners : ScanLock(t)
    \/ \E t \in Scanners, name \in {"model", "empty", "raise"} : QueryReturns(t, name)
    \/ \E t \in Scanners : ScanRemove(t)
    \/ \E t \in Threads, reenters \in BOOLEAN : Callback(t, reenters)
    \/ \E t \in Threads : Release(t)
    \/ \E name \in Services, resolved \in {"none", "noaddr", "ok"}, info \in Endpoints :
          OnMdnsServiceAdded(name, resolved, info)

SpecLookup == Init /\ [][NextLookup]_vars

-----------------------------------------------------------------------------
(* The registry against the phones: the phones get plugged, unplugged and   *)
(* authorised until their status stops changing, the bridge tool stays      *)
(* available, the poll loop runs and refresh() is called                    *)

\* the status of each phone
Shown == {f \in [Serials -> {"device", "unauthorized", "absent"}] :
             \A serial \in Serials : f[serial] \in Statuses(serial)}

\* what `adb devices` prints for them
AdbListing(st) == [rc |-> 0, lines |-> <<HeaderLine>> \o DeviceLines(st) \o << << >> >>]

InitConverge ==
    /\ InitReceiver
    /\ called = NotRecording
    /\ InitParser
    /\ InitDiscovery
    /\ late = FALSE
    /\ tls = NoTls
    /\ view = NoView
    /\ sink = NoSink
    /\ ui = NoUi
    /\ adb \in {[stage |-> "on", shown |-> st, settled |-> FALSE] : st \in Shown}

\* a phone is plugged, unplugged, authorised
Replug(st) ==
    /\ adb.stage = "on"
    /\ ~adb.settled
    /\ st # adb.shown
    /\ adb' = [adb EXCEPT !.shown = st]
    /\ UNCHANGED <<rvars, pvars, dvars, late, tls, view, sink, ui>>

\* from now on nothing changes
Settle ==
    /\ adb.stage = "on"
    /\ ~adb.settled
    /\ adb' = [adb EXCEPT !.settled = TRUE]
    /\ UNCHANGED <<rvars, pvars, dvars, late, tls, view, sink, ui>>

\* _update_usb_devices() by the poll loop or by refresh(), with adb on the
\* path and `adb devices` printing the phones as they are
ScanShown(t) == ScanStart(t, TRUE, FALSE, AdbListing(adb.shown))

\* the steps of a thread that runs _update_usb_devices, once it is in it
ScanSteps(t) ==
    \/ \E name \in {"model", "empty", "raise"} : ScanDevice(t, name)
    \/ ScanRemove(t)
    \/ \E reenters \in BOOLEAN : Callback(t, reenters)
    \/ Release(t)

NextConverge ==
    \/ OnDevicesChanged
    \/ Start(FALSE)
    \/ \E st \in Shown : Replug(st)
    \/ Settle
    \/ \E t \in Scanners : ScanShown(t)
    \/ \E t \in Scanners : ScanSteps(t)

SpecConverge == InitConverge /\ [][NextConverge]_vars

\* the poll loop goes round (it sleeps 2 s between cycles) and a thread inside
\* _update_usb_devices goes on whenever it can
SpecConvergeFair ==
    /\ SpecConverge
    /\ WF_vars(ScanShown("poll"))
    /\ \A t \in Scanners : WF_vars(ScanSteps(t))

-----------------------------------------------------------------------------
(* The parser as a function of the wire bytes, for every flags byte         *)

\* a length prefix alone, a flags byte alone, or a flags byte and an access unit
ParseBodies ==
    {<< >>} \cup {<<f>> \o au : f \in Byte, au \in SeqsUpTo(ParseBytes, MaxPayload)}

InitParse ==
    /\ InitReceiver
    /\ called = NotRecording
    /\ InitDiscovery
    /\ InitOther
    /\ sent \in ParseBodies
    /\ wire = << >>
    /\ parsed = NoParse

\* the peer frames the packet
Encode ==
    /\ wire = << >>
    /\ wire' = EncodePacket(sent)
    /\ UNCHANGED <<rvars, dvars, xvars, sent, parsed>>

\* one iteration of the loop body on it
Parse ==
    /\ wire # << >>
    /\ parsed = NoParse
    /\ parsed' = ParseWire(wire)
    /\ UNCHANGED <<rvars, dvars, xvars, sent, wire>>

NextParse == Encode \/ Parse

SpecParse == InitParse /\ [][NextParse]_vars

-----------------------------------------------------------------------------
(* The framing of a stream: the packets of sent are written one after the   *)
(* other, arrive in pieces and are read in chunks                           *)

RECURSIVE EncodeAll(_)
\* the bytes of a sequence of packets
EncodeAll(bodies) ==
    IF bodies = << >> THEN << >> ELSE EncodePacket(Head(bodies)) \o EncodeAll(Tail(bodies))

\* packets on a stream
MaxPackets == 2

\* the loop of a new receiver is about to run; the peer will write the
\* packets of sent, wire holds the bytes that have not arrived yet
InitFraming ==
    /\ InitReceiver
    /\ called = NotRecording
    /\ InitDiscovery
    /\ InitOther
    /\ sent \in [1..MaxPackets -> StreamBodies]
    /\ wire = EncodeAll(sent)
    /\ parsed = NoParse

\* the next n bytes reach the socket's buffer
Arrive(n) ==
    /\ ssl_socket = "open"
    /\ link = "up"
    /\ n \in 1..Min(MaxChunk, Len(wire))
    /\ stream' = stream \o SubSeq(wire, 1, n)
    /\ wire' = SubSeq(wire, n + 1, Len(wire))
    /\ UNCHANGED <<is_running, ssl_socket, sock, frame_callback, loopvars, obsvars,
                   decvars, link, sent, parsed, xvars, dvars, called>>

\* the peer closes the connection once it has written everything
PeerCloses ==
    /\ wire = << >>
    /\ LinkDown(TRUE)

NextFraming ==
    \/ SetFrameCallback
    \/ \E ok \in BOOLEAN : StartReceiving(ok)
    \/ \E n \in 1..MaxChunk : Arrive(n)
    \/ PeerCloses
    \/ LoopTop
    \/ \E n \in 1..MaxChunk : RecvChunk(n)
    \/ RecvTimeout
    \/ RecvEof
    \/ UnpackSize
    \/ PacketEmpty
    \/ PacketShort
    \/ DecodeNoCallback
    \/ \E k \in 0..MaxFramesPerPacket : DecodeOk(k)
    \/ DecodeFail

SpecFraming == InitFraming /\ [][NextFraming]_vars

-----------------------------------------------------------------------------
(* The certificate handler and the handshake of connect()                   *)
(* (certificate_handler.py:13-71, ui_app.py:31-34, video_receiver.py:72-84) *)

\* what is at the certificate path: nothing that can be opened, a readable
\* file that holds no certificate, a PEM certificate
Files == {"missing", "text", "pem"}
\* the certificate the peer presents: the pinned one, one issued by an
\* authority of the system store, any other (self-signed)
Peers == {"pinned", "public", "other"}

\* CertificateHandler(cert_path): path_given is whether a path was passed;
\* configured is whether config.certificate_path is set
NewHandlers ==
    {[NoTls EXCEPT !.stage = "new", !.configured = c, !.path_given = g, !.file = f,
                   !.peer = p, !.name_ok = n, !.cert_path = g] :
        c \in BOOLEAN, g \in BOOLEAN, f \in Files, p \in Peers, n \in BOOLEAN}

InitTls ==
    /\ InitReceiver
    /\ called = NotRecording
    /\ InitParser
    /\ InitDiscovery
    /\ late = FALSE
    /\ view = NoView
    /\ sink = NoSink
    /\ ui = NoUi
    /\ adb = NoAdb
    /\ tls \in NewHandlers

\* load_certificate(cert_path): open(cert_path, 'r') and read; on success
\* self.cert_path = cert_path, on an exception the field stays as it was
LoadCertificateResult(cert_path, file) == IF file # "missing" THEN TRUE ELSE cert_path

\* ui_app.py:31-34: the handler loads the configured certificate, if any
LoadCertificate ==
    /\ tls.stage = "new"
    /\ tls' = [tls EXCEPT !.stage = "loaded",
                          !.cert_path = IF tls.configured
                                          THEN LoadCertificateResult(tls.cert_path, tls.file)
                                          ELSE tls.cert_path]
    /\ UNCHANGED <<rvars, pvars, dvars, late, view, svars>>

\* ssl.create_default_context(): verification on
DefaultContext == [check_hostname |-> TRUE, verify_mode |-> "CERT_REQUIRED"]
NoVerification == [check_hostname |-> FALSE, verify_mode |-> "CERT_NONE"]

\* create_ssl_context(verify_cert): load_verify_locations raises unless the
\* file holds a certificate, and the except branch switches verification off
CreateSslContext(verify_cert, cert_path, file) ==
    IF ~verify_cert THEN NoVerification
    ELSE IF cert_path
      THEN IF file = "pem" THEN DefaultContext ELSE NoVerification
      ELSE DefaultContext

\* connect(), lines 73-75: verify_cert = self.cert_handler.cert_path is not None
ConnectContext ==
    /\ tls.stage = "loaded"
    /\ LET context == CreateSslContext(tls.cert_path, tls.cert_path, tls.file)
       IN  tls' = [tls EXCEPT !.stage = "context",
                              !.check_hostname = context.check_hostname,
                              !.verify_mode = context.verify_mode]
    /\ UNCHANGED <<rvars, pvars, dvars, late, view, svars>>

\* the trust store of the context: the system's authorities and, once
\* load_verify_locations has succeeded, the pinned certificate
Trusted(peer, file) == peer = "public" \/ (peer = "pinned" /\ file = "pem")

\* the TLS handshake of wrap_socket(sock, server_hostname=...)
Handshake(t, server_hostname) ==
    IF t.check_hostname /\ ~server_hostname THEN "failed"
    ELSE IF t.verify_mode = "CERT_NONE" THEN "ok"
    ELSE IF Trusted(t.peer, t.file) /\ (t.check_hostname => t.name_ok) THEN "ok"
    ELSE "failed"

\* connect(), lines 78-84: socket.connect, then wrap_socket with
\* server_hostname = self.host if self.cert_handler.cert_path else None
ConnectWrap(tcp_ok) ==
    /\ tls.stage = "context"
    /\ tls' = [tls EXCEPT !.stage = "done",
                          !.server_hostname = tcp_ok /\ tls.cert_path,
                          !.handshake = IF tcp_ok THEN Handshake(tls, tls.cert_path)
                                        ELSE "none"]
    /\ UNCHANGED <<rvars, pvars, dvars, late, view, svars>>

NextTls ==
    \/ LoadCertificate
    \/ ConnectContext
    \/ \E tcp_ok \in BOOLEAN : ConnectWrap(tcp_ok)

SpecTls == InitTls /\ [][NextTls]_vars

-----------------------------------------------------------------------------
(* The frame transform: on_frame_received and the two paths                 *)
(* (ui_app.py:269-345)                                                      *)

\* a frame is a sequence of rows of pixels; the pixels of an input frame are
\* all different, so that every rotation and mirror of it is another frame
Frame(h, w) == [i \in 1..h |-> [j \in 1..w |-> (i - 1) * w + j]]
Frames == {Frame(h, w) : h \in 1..MaxHeight, w \in 1..MaxWidth}

Height(m) == Len(m)
Width(m) == Len(m[1])

\* np.rot90(m): a quarter turn counterclockwise, the last column becomes the
\* first row
Rot90(m) == [i \in 1..Width(m) |-> [j \in 1..Height(m) |-> m[j][Width(m) + 1 - i]]]

RECURSIVE Rot90K(_, _)
\* np.rot90(m, k=k)
Rot90K(m, k) == IF k = 0 THEN m ELSE Rot90K(Rot90(m), k - 1)

\* np.fliplr(m)
FlipLr(m) == [i \in 1..Height(m) |-> [j \in 1..Width(m) |-> m[i][Width(m) + 1 - j]]]

\* _rotate_front_camera(frame, orientation_degrees)
RotateFrontCamera(frame, orientation_degrees) ==
    CASE orientation_degrees = 0 -> frame
      [] orientation_degrees = 90 -> Rot90K(frame, 1)
      [] orientation_degrees = 180 -> Rot90K(frame, 2)
      [] orientation_degrees = 270 -> Rot90K(frame, 3)
      [] OTHER -> frame

\* a variant whose back-camera branches for 90 and 270 are exchanged
ProcessFrameForPreviewSwapped(frame, orientation_degrees, is_back_camera) ==
    IF is_back_camera
      THEN CASE orientation_degrees = 0 -> frame
             [] orientation_degrees = 90 -> Rot90K(frame, 1)
             [] orientation_degrees = 180 -> Rot90K(frame, 2)
             [] orientation_degrees = 270 -> Rot90K(frame, 3)
             [] OTHER -> frame
      ELSE FlipLr(RotateFrontCamera(frame, orientation_degrees))

\* _process_frame_for_preview(frame, orientation_degrees, is_back_camera)
ProcessFrameForPreview(frame, orientation_degrees, is_back_camera) ==
    IF is_back_camera
      THEN CASE orientation_degrees = 0 -> frame
             [] orientation_degrees = 90 -> Rot90K(frame, 3)
             [] orientation_degrees = 180 -> Rot90K(frame, 2)
             [] orientation_degrees = 270 -> Rot90K(frame, 1)
             [] OTHER -> frame
      ELSE FlipLr(RotateFrontCamera(frame, orientation_degrees))

\* _process_frame_for_vcam(frame, orientation_degrees, is_back_camera)
ProcessFrameForVcam(frame, orientation_degrees, is_back_camera) ==
    IF is_back_camera
      THEN CASE orientation_degrees = 0 -> FlipLr(frame)
             [] orientation_degrees = 90 -> FlipLr(Rot90K(frame, 3))
             [] orientation_degrees = 180 -> FlipLr(frame)
             [] orientation_degrees = 270 -> FlipLr(Rot90K(frame, 1))
             [] OTHER -> frame
      ELSE RotateFrontCamera(frame, orientation_degrees)

\* the four orientations of the wire protocol, and values that are none of them
Orientations == {0, 90, 180, 270}
OrientationInputs == Orientations \cup {45, 360}

\* a decoded frame handed to on_frame_received, with or without a virtual
\* camera started
InitView ==
    /\ InitReceiver
    /\ called = NotRecording
    /\ InitParser
    /\ InitDiscovery
    /\ late = FALSE
    /\ tls = NoTls
    /\ sink = NoSink
    /\ ui = NoUi
    /\ adb = NoAdb
    /\ view \in {[NoView EXCEPT !.stage = "decoded", !.frame = f,
                                !.orientation_degrees = o, !.is_back_camera = b,
                                !.virtual_cam = v] :
                     f \in Frames, o \in OrientationInputs, b \in BOOLEAN, v \in BOOLEAN}

\* on_frame_received(frame, orientation_degrees, is_back_camera): the preview
\* frame, then the frame for the virtual camera if there is one
OnFrameReceived ==
    /\ view.stage = "decoded"
    /\ view' = [view EXCEPT
                  !.stage = "sent",
                  !.preview_frame = ProcessFrameForPreview(view.frame, view.orientation_degrees,
                                                           view.is_back_camera),
                  !.vcam_frame = IF view.virtual_cam
                                   THEN ProcessFrameForVcam(view.frame, view.orientation_degrees,
                                                            view.is_back_camera)
                                   ELSE << >>]
    /\ UNCHANGED <<rvars, pvars, dvars, late, tls, svars>>

NextView == OnFrameReceived

SpecView == InitView /\ [][NextView]_vars

-----------------------------------------------------------------------------
(* The virtual-camera sink (virtual_cam_bridge.py)                          *)

RECURSIVE Pow2(_)
Pow2(n) == IF n = 0 THEN 1 ELSE 2 * Pow2(n - 1)

RECURSIVE PowMod2(_, _)
\* 2^k mod c
PowMod2(k, c) == IF k = 0 THEN 1 % c ELSE (2 * PowMod2(k - 1, c)) % c

RECURSIVE FloorLog2(_)
FloorLog2(n) == IF n < 2 THEN 0 ELSE 1 + FloorLog2(n \div 2)

RECURSIVE UpExponent(_, _)
UpExponent(a, c) == IF a >= c THEN 0 ELSE 1 + UpExponent(2 * a, c)

\* the d with c <= a * 2^d < 2c: the double nearest to a / c is m * 2^-(d + 52)
\* with 2^52 <= m < 2^53
QuotientExponent(a, c) == IF a >= c THEN 0 - FloorLog2(a \div c) ELSE UpExponent(a, c)

\* Python floats are IEEE doubles. For sides below 2^11 and a * b a multiple of
\* c, b * (a / c) comes out below the integer a * b / c exactly when the
\* quotient was rounded down (remainder r of a * 2^(d+52) by c with
\* 0 < 2r < c) and the product b * r / (c * 2^(d+52)) that is missing exceeds
\* half the distance from a * b / c to the double below it, 2^(g-53)
FloatLoss(b, a, c) ==
    LET N == (a * b) \div c
        d == QuotientExponent(a, c)
        r == (a * PowMod2(d + 52, c)) % c
        e == FloorLog2(N)
        g == IF N = Pow2(e) THEN e - 1 ELSE e
        t == d + g - 1
    IN  /\ r > 0
        /\ 2 * r < c
        /\ IF t >= 0 THEN b * r > c * Pow2(t) ELSE b * r * Pow2(0 - t) > c

\* int(side * scale) for scale = out / inp: where the exact product is no
\* integer the rounding errors do not reach the next integer
ScaledSide(side, out, inp) ==
    IF (out * side) % inp # 0 THEN (out * side) \div inp
    ELSE IF FloatLoss(side, out, inp) THEN (out * side) \div inp - 1
    ELSE (out * side) \div inp

\* lines 85-92: scale = min(scale_w, scale_h) and the four parameters (two
\* different quotients of sides below 2^11 are different doubles, in the
\* same order)
ScaleParams(width, height, frame_w, frame_h) ==
    LET by_width == width * frame_h <= height * frame_w
        out == IF by_width THEN width ELSE height
        inp == IF by_width THEN frame_w ELSE frame_h
        new_w == ScaledSide(frame_w, out, inp)
        new_h == ScaledSide(frame_h, out, inp)
    IN  [set |-> TRUE, new_w |-> new_w, new_h |-> new_h,
         paste_x |-> (width - new_w) \div 2, paste_y |-> (height - new_h) \div 2]

\* output sizes (height, width): the default of the configuration and full HD
Outputs == {<<720, 1280>>, <<1080, 1920>>}
\* frame sizes (height, width): the two output sizes, 640x480 and its
\* portrait, 854x480, and a frame one pixel wide
FrameSizes == Outputs \cup {<<480, 640>>, <<640, 480>>, <<480, 854>>, <<2000, 1>>}

\* VirtualCamBridge(width, height, fps), with or without OpenCV installed
NewSinks ==
    {[NoSink EXCEPT !.stage = "new", !.height = o[1], !.width = o[2], !.has_cv2 = c] :
        o \in Outputs, c \in BOOLEAN}

InitSink ==
    /\ InitReceiver
    /\ called = NotRecording
    /\ InitParser
    /\ InitDiscovery
    /\ late = FALSE
    /\ tls = NoTls
    /\ view = NoView
    /\ ui = NoUi
    /\ adb = NoAdb
    /\ sink \in NewSinks

\* start(): ok is whether pyvirtualcam.Camera(...) could be opened; if it
\* raises nothing has been assigned
SinkStart(ok) ==
    /\ sink.stage = "new"
    /\ sink' = IF ok
                 THEN [sink EXCEPT !.camera = TRUE, !.is_running = TRUE, !.canvas = TRUE,
                                   !.painted = {}, !.frame = <<0, 0>>, !.result = "none",
                                   !.pushed = 0, !.region = NoParams]
                 ELSE [sink EXCEPT !.frame = <<0, 0>>, !.result = "none", !.pushed = 0,
                                   !.region = NoParams]
    /\ UNCHANGED <<rvars, pvars, dvars, late, tls, view, ui, adb>>

\* stop(): the camera, the flag, the canvas and the cached parameters;
\* _last_frame_size stays
SinkStop ==
    /\ sink.stage = "new"
    /\ sink' = [sink EXCEPT !.camera = FALSE, !.is_running = FALSE, !.canvas = FALSE,
                             !.painted = {}, !.cached_scale_params = NoParams,
                             !.frame = <<0, 0>>, !.result = "none", !.pushed = 0,
                             !.region = NoParams]
    /\ UNCHANGED <<rvars, pvars, dvars, late, tls, view, ui, adb>>

\* the rectangle of the canvas that lines 106 assigns
PasteRegion(params) ==
    IF params.new_w = 0 \/ params.new_h = 0 THEN {}
    ELSE {[x |-> params.paste_x, y |-> params.paste_y, w |-> params.new_w, h |-> params.new_h]}

\* a variant that leaves the canvas as it is
CanvasKept(painted) == painted

\* self._canvas.fill(0) (line 94): nothing pasted is left
CanvasFilled(painted) == {}

\* the resize path of send_frame (lines 81-109) on a started sink: the cache,
\* the resize, the paste and the push; an exception anywhere ends the call in
\* the except branch (lines 111-112) with what was assigned so far
SendResized(s, size) ==
    LET changed == size # s.last_frame_size
        params == IF changed THEN ScaleParams(s.width, s.height, size[2], size[1])
                  ELSE s.cached_scale_params
        blank == IF changed THEN CanvasFilled(s.painted) ELSE s.painted
        s1 == [s EXCEPT !.last_frame_size = size, !.cached_scale_params = params,
                        !.painted = blank, !.frame = size, !.region = params,
                        !.previous = s.last_frame_size]
    IN  IF ~params.set
          THEN [s1 EXCEPT !.result = "error", !.pushed = 0]
        ELSE IF s.has_cv2 /\ (params.new_w = 0 \/ params.new_h = 0)
          THEN [s1 EXCEPT !.result = "error", !.pushed = 0]
        ELSE [s1 EXCEPT !.painted = blank \cup PasteRegion(params),
                        !.result = "letterbox", !.pushed = 1]

\* send_frame(frame) for a frame of size = (frame_h, frame_w)
SendFrame(size) ==
    /\ sink.stage = "new"
    /\ sink' = IF ~sink.is_running \/ ~sink.camera
                 THEN [sink EXCEPT !.frame = size, !.result = "not_started", !.pushed = 0,
                                   !.region = NoParams]
               ELSE IF size = <<sink.height, sink.width>>
                 THEN [sink EXCEPT !.frame = size, !.result = "direct", !.pushed = 1,
                                   !.region = NoParams]
               ELSE SendResized(sink, size)
    /\ UNCHANGED <<rvars, pvars, dvars, late, tls, view, ui, adb>>

NextSink ==
    \/ \E ok \in BOOLEAN : SinkStart(ok)
    \/ SinkStop
    \/ \E size \in FrameSizes : SendFrame(size)

SpecSink == InitSink /\ [][NextSink]_vars

\* section 4.4 and the scenario of section 8: scale = min(outW/inW, outH/inH),
\* the scaled size rounded down, centred
LetterboxReference(width, height, frame_w, frame_h) ==
    LET by_width == width * frame_h <= height * frame_w
        out == IF by_width THEN width ELSE height
        inp == IF by_width THEN frame_w ELSE frame_h
        new_w == (out * frame_w) \div inp
        new_h == (out * frame_h) \div inp
    IN  [set |-> TRUE, new_w |-> new_w, new_h |-> new_h,
         paste_x |-> (width - new_w) \div 2, paste_y |-> (height - new_h) \div 2]

-----------------------------------------------------------------------------
(* The preview delivery (ui_app.py): the receive threads call               *)
(* on_frame_received, the UI thread runs the handlers and the callbacks     *)
(* queued with root.after                                                   *)

\* _update_label callbacks queued and not yet run, capped
MaxScheduled == 3

\* receive threads: the loop of the receiver in use and the loop of the
\* receiver before it, which disconnect() stops waiting for after 2 seconds
Loops == {1, 2}

InitPreview ==
    /\ InitReceiver
    /\ called = NotRecording
    /\ InitParser
    /\ InitDiscovery
    /\ late = FALSE
    /\ tls = NoTls
    /\ view = NoView
    /\ sink = NoSink
    /\ ui = [NoUi EXCEPT !.stage = "app"]
    /\ adb = NoAdb

\* where a receive thread is once its call of on_frame_received is over: back
\* in recv, or gone if its receiver was disconnected (while self.is_running)
AfterCallback(i) == IF ui.is_running[i] THEN "loop" ELSE "none"

\* start_streaming() with a successful connect(): a new VideoReceiver whose
\* loop calls on_frame_received, and is_streaming = True
StartStreaming(i) ==
    /\ ui.stage = "app"
    /\ ~ui.is_streaming
    /\ ui.pc[i] = "none"
    /\ \A j \in Loops : j < i => ui.pc[j] # "none"
    /\ ui' = [ui EXCEPT !.is_streaming = TRUE, !.pc[i] = "loop", !.is_running[i] = TRUE,
                         !.overlap = @ \/ \E j \in Loops : ui.pc[j] # "none",
                         !.dropped = FALSE]
    /\ UNCHANGED <<rvars, pvars, dvars, late, tls, view, sink, adb>>

\* stop_streaming(): is_streaming = False first, then disconnect(), which
\* clears is_running, closes the socket and joins the loop for 2 seconds: a
\* loop waiting in recv ends, a loop inside the callback is left behind
StopStreaming ==
    /\ ui.stage = "app"
    /\ ui.is_streaming
    /\ ui' = [ui EXCEPT !.is_streaming = FALSE,
                         !.is_running = [i \in Loops |-> FALSE],
                         !.pc = [i \in Loops |-> IF ui.pc[i] = "loop" THEN "none" ELSE ui.pc[i]],
                         !.dropped = FALSE]
    /\ UNCHANGED <<rvars, pvars, dvars, late, tls, view, sink, adb>>

\* a loop decodes a frame and calls on_frame_received: update_preview up to
\* line 355
FrameArrives(i) ==
    /\ ui.stage = "app"
    /\ ui.pc[i] = "loop"
    /\ ui' = IF ~ui.is_streaming THEN [ui EXCEPT !.dropped = FALSE]
             ELSE IF ui.ui_update_pending THEN [ui EXCEPT !.dropped = TRUE]
             ELSE [ui EXCEPT !.pc[i] = "checked", !.dropped = FALSE]
    /\ UNCHANGED <<rvars, pvars, dvars, late, tls, view, sink, adb>>

\* lines 357-368: the image is built (ok) and the update marked pending, or
\* building it raises and line 384 clears the mark
MarkPending(i, ok) ==
    /\ ui.stage = "app"
    /\ ui.pc[i] = "checked"
    /\ ui' = IF ok THEN [ui EXCEPT !.ui_update_pending = TRUE, !.pc[i] = "marked"]
             ELSE [ui EXCEPT !.ui_update_pending = FALSE, !.pc[i] = AfterCallback(i)]
    /\ UNCHANGED <<rvars, pvars, dvars, late, tls, view, sink, adb>>

\* line 381: root.after(0, _update_label) queues the callback (ok), or raises
\* and line 384 clears the mark
ScheduleUpdate(i, ok) ==
    /\ ui.stage = "app"
    /\ ui.pc[i] = "marked"
    /\ ok => ui.scheduled < MaxScheduled
    /\ ui' = IF ok THEN [ui EXCEPT !.scheduled = @ + 1, !.pc[i] = AfterCallback(i)]
             ELSE [ui EXCEPT !.ui_update_pending = FALSE, !.pc[i] = AfterCallback(i)]
    /\ UNCHANGED <<rvars, pvars, dvars, late, tls, view, sink, adb>>

\* the UI thread runs a queued _update_label (lines 372-379)
UpdateLabel ==
    /\ ui.stage = "app"
    /\ ui.scheduled > 0
    /\ ui' = [ui EXCEPT !.scheduled = @ - 1, !.ui_update_pending = FALSE]
    /\ UNCHANGED <<rvars, pvars, dvars, late, tls, view, sink, adb>>

NextPreview ==
    \/ \E i \in Loops : StartStreaming(i)
    \/ StopStreaming
    \/ \E i \in Loops : FrameArrives(i)
    \/ \E i \in Loops, ok \in BOOLEAN : MarkPending(i, ok)
    \/ \E i \in Loops, ok \in BOOLEAN : ScheduleUpdate(i, ok)
    \/ UpdateLabel

SpecPreview == InitPreview /\ [][NextPreview]_vars

\* section 4.3: a rotation by a multiple of 90 degrees, counterclockwise as
\* the rotation of the front camera is
Rotated(frame, degrees) == Rot90K(frame, degrees \div 90)

\* section 4.3, preview path: back camera rotated by (360 - orientation) mod
\* 360 and not mirrored, front camera rotated by the orientation then mirrored
PreviewReference(frame, orientation_degrees, is_back_camera) ==
    IF is_back_camera
      THEN Rotated(frame, (360 - orientation_degrees) % 360)
      ELSE FlipLr(Rotated(frame, orientation_degrees))

\* section 4.3, sink path: back camera rotated by (360 - orientation) mod 360
\* then mirrored, front camera rotated by the orientation
SinkReference(frame, orientation_degrees, is_back_camera) ==
    IF is_back_camera
      THEN FlipLr(Rotated(frame, (360 - orientation_degrees) % 360))
      ELSE Rotated(frame, orientation_degrees)

-----------------------------------------------------------------------------
(* Claims on the receiver                                                   *)

\* a step of the receive thread that ends the handling of a packet it has read
PacketStep == thread_pc = "recv_payload" /\ thread_pc' # "recv_payload"
              /\ Len(data) = packet_size

\* C1, as claimed: a packet whose length prefix is 0 or 1 is skipped: no frame
\* is emitted, the error count is unchanged and the loop goes on to the next
\* packet instead of ending.
C1_ShortPacketSkipped ==
    [][ (PacketStep /\ packet_size < 2)
          => /\ thread_pc' = "top"
             /\ is_running' = is_running
             /\ delivered' = << >>
             /\ decode_error_count' = decode_error_count ]_vars

\* C2: parsing [4-byte big-endian length][flags][payload] yields
\* orientation = (flags AND 3) * 90, mirror = bit 7 of flags and the payload
\* bytes, for each of the 256 flag bytes and every non-empty payload; bits
\* 2..6 change nothing and no such packet is rejected.
C2_ParseRoundTrip ==
    (parsed # NoParse /\ Len(sent) >= 2)
        => /\ parsed.kind = "decode"
           /\ parsed.args = [orientation_degrees |-> (sent[1] % 4) * 90,
                             mirror |-> (sent[1] \div 128) % 2 = 1,
                             h264_data |-> Tail(sent)]

\* C2 witness: a flags byte with every reserved bit set and orientation 3 parsed
C2_Witness ==
    /\ parsed # NoParse
    /\ Len(sent) >= 2
    /\ sent[1] = 255
    /\ parsed.kind = "decode"
    /\ parsed.args.orientation_degrees = 270

\* a step in which _decode_frame caught a decode failure
DecodeFailStep == PacketStep /\ last_result' = "decode_error"

\* the receive loop goes on after the step: the thread is back at the while
\* test, the flag and the sockets are as they were
LoopGoesOn ==
    /\ thread_pc' = "top"
    /\ UNCHANGED <<is_running, ssl_socket, sock>>

\* C3, as claimed: a decode failure increments the error count by one, emits
\* no frame and neither ends the loop nor closes the connection.
C3_FailureIncrements ==
    [][ DecodeFailStep
          => /\ decode_error_count' = decode_error_count + 1
             /\ delivered' = << >>
             /\ LoopGoesOn ]_vars

\* C3, amended: a decode failure increments the error count by one, except
\* that the failure which would bring it to 50 leaves it at 0 (the decoder is
\* reinitialised); it emits no frame and neither ends the loop nor closes the
\* connection.
C3_FailureCounted ==
    [][ DecodeFailStep
          => /\ decode_error_count' =
                   IF decode_error_count + 1 = ReinitThreshold
                     THEN 0 ELSE decode_error_count + 1
             /\ delivered' = << >>
             /\ LoopGoesOn ]_vars

\* C3 witness: two failures in a row have been counted and the loop is running
C3_Witness ==
    /\ last_result = "decode_error"
    /\ decode_error_count = 2
    /\ thread_pc = "top"
    /\ is_running
    /\ ssl_socket = "open"

\* C4: starting from an error count of 0, decode failures in a row cause no
\* reinitialisation before the 50th, the 50th reinitialises the decoder once
\* and leaves the count at 0, and the loop keeps running with the session
\* open.
C4_ReinitAtFiftieth ==
    [][ /\ streak' \in 1..(ReinitThreshold - 1)
            => ~reinitialised' /\ decode_error_count' = streak'
        /\ streak' = ReinitThreshold
            => reinitialised' /\ decode_error_count' = 0
        /\ streak' <= ReinitThreshold
        /\ DecodeFailStep => LoopGoesOn ]_vars

\* C4 witness: the 50th failure in a row has just reinitialised the decoder
C4_Witness ==
    /\ streak = ReinitThreshold
    /\ reinitialised
    /\ decode_error_count = 0
    /\ thread_pc = "top"
    /\ is_running
    /\ ssl_socket = "open"

\* C5, as claimed: after an access unit that decodes without error the error
\* count is 0, whether it yielded zero, one or several frames.
C5_SuccessResets ==
    (thread_pc = "top" /\ last_result = "decoded") => decode_error_count = 0

-----------------------------------------------------------------------------
(* The discovery service: properties                                        *)

\* thread t is inside a listener's callback or about to call one
InCallbacks(t) == th[t].pc = "notify" /\ th[t].next <= Len(callbacks)

\* C7: while listener callbacks run the registry lock is not held, and no
\* thread ends up waiting for a lock it holds itself because a listener called
\* get_devices() from its callback.
C7_CallbacksOutsideLock ==
    \A t \in Threads : (InCallbacks(t) => lock # t) /\ th[t].pc # "deadlock"

\* scanner t takes the last step of a cycle of _update_usb_devices that ran to
\* its end
CycleCompletes(t) ==
    th[t].pc = "scan" /\ th[t].listing = << >> /\ th'[t].pc # "scan"

\* C8: when a poll cycle that no other run of _update_usb_devices overlapped
\* completes, the direct-attach entries of the registry are exactly the
\* serials the listing showed with status "device", each under "usb:" + serial.
C8_PollCycleExact ==
    [][\A t \in Scanners :
          CycleCompletes(t) /\ ~th[t].overlap
          => IdsOfType(devices', "usb") = {UsbId(serial) : serial \in th[t].polled}]_vars

\* a completed, not overlapped cycle whose listing showed A ready and B not,
\* and which removed B, registered by an earlier cycle
C8_Witness ==
    \E t \in Scanners :
        /\ th[t].pc = "notify" /\ th[t].after = "idle" /\ ~th[t].overlap
        /\ th[t].polled = {"A"}
        /\ \E d \in th[t].before : d.id = UsbId("B")
        /\ IdsOfType(devices, "usb") = {UsbId("A")}

\* the entries of the registry that service name stands for
EntriesOf(name) ==
    {k \in DOMAIN devices : devices[k].type = "wifi" /\ devices[k].name = FriendlyName(name)}

\* C9: registry ids are unique, a service name has at most one entry, and
\* that entry carries the address and port of the latest resolved
\* advertisement of the name.
C9_OneEntryPerService ==
    /\ \A k \in DOMAIN devices : devices[k].id = k
    /\ \A n \in Services :
          /\ Cardinality(EntriesOf(n)) <= 1
          /\ EntriesOf(n) \subseteq {WifiId(n)}
          /\ WifiId(n) \in DOMAIN devices
             => /\ devices[WifiId(n)].address = last_adv[n].address
                /\ devices[WifiId(n)].port = last_adv[n].port

\* an advertisement has just overwritten the endpoint of an entry that existed,
\* next to an entry of the other service
C9_Witness ==
    /\ th["mdns"].pc = "notify"
    /\ \E n \in Services, d \in th["mdns"].before :
          /\ d.id = WifiId(n)
          /\ WifiId(n) \in DOMAIN devices
          /\ devices[WifiId(n)].address # d.address
          /\ devices[WifiId(n)].port # d.port
    /\ Cardinality(IdsOfType(devices, "wifi")) = Cardinality(Services)

\* C10: a callback is handed the full content the registry has after the
\* mutation, and once no thread has a callback left to call every registered
\* listener has been handed the content the registry now has.
C10_ListenersGetCurrentSet ==
    /\ \A t \in Threads : th[t].pc = "notify" => th[t].snap = SnapshotOf(devices)
    /\ (\A t \in Threads : th[t].pc # "notify") => stale = {}

\* C11: a cycle of _update_usb_devices calls _notify_change, and with it each
\* listener, at most once, however many entries it adds and removes: a cycle
\* that has notified does not notify again.
C11_OneNotificationPerCycle ==
    [][\A t \in Scanners :
          ~(th[t].pc = "scan" /\ th[t].notified /\ th'[t].pc = "notify")]_vars

\* the entries of one type, with their records
EntriesOfType(devs, device_type) ==
    {devs[k] : k \in IdsOfType(devs, device_type)}

\* C12: a probe that finds the bridge tool unavailable removes every
\* direct-attach entry, leaves the network entries as they were and starts a
\* notification of all listeners, which does not end with a listener left out.
C12_UnavailablePurges ==
    [][\A t \in Scanners :
          /\ (th[t].purging # "usb" /\ th'[t].purging = "usb")
             => /\ IdsOfType(devices', "usb") = {}
                /\ EntriesOfType(devices', "wifi") = EntriesOfType(devices, "wifi")
                /\ th'[t].pc = "notify"
                /\ th'[t].snap = SnapshotOf(devices')
                /\ stale' = Range(callbacks)
          /\ (th[t].purging = "usb" /\ th'[t].pc = "deadlock") => stale' = {}]_vars

\* start() has just run with Zeroconf failing to come up
StartWithoutZeroconf == ~usb_poll_running /\ usb_poll_running' /\ zeroconf' = "none"

\* stop() has just run with network discovery disabled
StopWithoutZeroconf == usb_poll_running /\ ~usb_poll_running' /\ zeroconf = "none"

\* C13: when Zeroconf does not come up, start() returns with the poll thread
\* running and network discovery off, no network entry appears while it is
\* off, and stop() returns at once, with nothing left to purge.
C13_StartSurvivesNoZeroconf ==
    [][/\ zeroconf' = "none" => ~mdns_running'
       /\ StartWithoutZeroconf
          => th'["ui"].pc = "idle" /\ th'["poll"].pc = "idle" /\ devices' = devices
       /\ (zeroconf = "none" /\ zeroconf' = "none")
          => EntriesOfType(devices', "wifi") \subseteq EntriesOfType(devices, "wifi")
       /\ StopWithoutZeroconf
          => th'["ui"].pc = "idle" /\ devices' = devices]_vars

\* with network discovery off, the poll thread has just registered phone A
C13_Witness ==
    /\ zeroconf = "none" /\ ~mdns_running /\ usb_poll_running
    /\ th["poll"].pc = "notify"
    /\ UsbId("A") \in DOMAIN devices
    /\ \A d \in th["poll"].before : d.id # UsbId("A")

-----------------------------------------------------------------------------
(* The receiver's interface: properties                                     *)

\* the step is a call of method op
CallStep(op) == called' # called /\ called'.op = op

\* the state the specification calls Closed
Closed == ~is_running /\ ssl_socket = "none" /\ sock = "none"

\* C14: every disconnect() call, the first, one that follows another and one
\* on a receiver that never connected, leaves the receiver not running and
\* without TCP and TLS socket; the repeated call changes none of the three.
C14_DisconnectIdempotent ==
    [][CallStep("disconnect")
       => /\ Closed'
          /\ called'.again => UNCHANGED <<is_running, ssl_socket, sock>>]_vars

\* disconnect() called twice in succession on a receiver that had streamed
C14_Witness ==
    /\ called.op = "disconnect" /\ called.again
    /\ Closed
    /\ thread_pc = "exited"

\* the receiver has no connection: no TLS socket, or the socket of a session
\* whose loop a zero-length read or a read error has ended
NotConnected ==
    /\ ~is_running
    /\ \/ ssl_socket = "none"
       \/ thread_pc = "exited" /\ link \in {"eof", "broken"}

\* C15: start_receiving() on a streaming receiver changes nothing: no new
\* loop, no new connection, the decoder as it was. On a receiver that has no
\* connection it connects first: on failure no loop is spawned and the
\* receiver is not running, on success the loop starts over the new connection.
C15_StartReceivingGuards ==
    [][CallStep("start_receiving")
       => /\ is_running
             => UNCHANGED <<is_running, ssl_socket, sock, thread_pc, data, packet_size,
                            stream, link, decode_error_count, frames_decoded,
                            reinitialised, late>>
          /\ (NotConnected /\ ~called'.ok)
             => thread_pc' = thread_pc /\ ~is_running' /\ link' = "none" /\ late' = late
          /\ (NotConnected /\ called'.ok)
             => thread_pc' = "top" /\ is_running' /\ ssl_socket' = "open" /\ link' = "up"]_vars

\* C16: a connect() whose TCP connect or handshake fails leaves the receiver
\* not running, without TCP and TLS socket and without a connection, and
\* starts no loop.
C16_ConnectFailureCloses ==
    [][(CallStep("connect") /\ ~called'.ok)
       => Closed' /\ link' = "none" /\ thread_pc' = thread_pc]_vars

\* connect() failed on a receiver whose earlier session the peer had ended
C16_Witness ==
    /\ called.op = "connect" /\ ~called.ok
    /\ Closed
    /\ thread_pc = "exited"

\* C17: once disconnect() has been called while the receive loop runs, that
\* loop exits: as the loop of the current session, or, when a new session was
\* started over it, as the loop of the earlier one.
C17_LoopExitsAfterDisconnect ==
    /\ (called.op = "disconnect" /\ thread_pc \notin {"none", "exited"})
           ~> (thread_pc = "exited" \/ late)
    /\ late ~> ~late

\* the receive thread gets a zero-length read
ZeroLengthRead ==
    /\ thread_pc \in {"recv_size", "recv_payload"}
    /\ last_result' \in {"eof", "eof_partial"}

\* C18: a zero-length read, in the prefix or in the payload, ends the loop:
\* no frame for the packet under way, the error count and the frame count as
\* they were, and is_connected() false afterwards.
C18_ZeroLengthReadEnds ==
    [][ZeroLengthRead
       => /\ thread_pc' = "exited"
          /\ delivered' = << >>
          /\ decode_error_count' = decode_error_count
          /\ frames_decoded' = frames_decoded
          /\ ~IsConnected']_vars

\* the peer went away in the middle of a packet, after whole packets that
\* gave frames
C18_Witness ==
    /\ last_result = "eof_partial"
    /\ thread_pc = "exited"
    /\ frames_decoded > 0
    /\ delivered = << >>
    /\ ~IsConnected

-----------------------------------------------------------------------------
(* The handshake: properties                                                *)

\* C19: a handshake that connect() completes while the handler has a
\* certificate path was made with the peer certificate required and the
\* hostname checked.
C19_PinnedPathVerifies ==
    (tls.stage = "done" /\ tls.handshake = "ok" /\ tls.cert_path)
        => (tls.verify_mode = "CERT_REQUIRED" /\ tls.check_hostname)

-----------------------------------------------------------------------------
(* The frame transform: properties                                          *)

\* C20: for both camera facings and the four orientations, the frame sent to
\* the virtual camera is the reference of section 4.3 applied to the decoded
\* frame.
C20_SinkTransformIsReference ==
    (view.stage = "sent" /\ view.virtual_cam /\ view.orientation_degrees \in Orientations)
        => view.vcam_frame = SinkReference(view.frame, view.orientation_degrees,
                                           view.is_back_camera)

\* C21: for both camera facings and the four orientations, the preview frame
\* is the reference of section 4.3 applied to the decoded frame, and for the
\* front camera it is the horizontal mirror of the frame sent to the virtual
\* camera.
C21_PreviewTransformIsReference ==
    (view.stage = "sent" /\ view.orientation_degrees \in Orientations)
        => /\ view.preview_frame = PreviewReference(view.frame, view.orientation_degrees,
                                                    view.is_back_camera)
           /\ (~view.is_back_camera /\ view.virtual_cam)
                 => view.preview_frame = FlipLr(view.vcam_frame)

\* a back-camera frame of two rows and three columns held at 90 degrees has
\* been turned into a preview of three rows whose first row is the first
\* column of the frame
C21_Witness ==
    /\ view.stage = "sent"
    /\ view.is_back_camera
    /\ view.orientation_degrees = 90
    /\ view.frame = Frame(2, 3)
    /\ view.preview_frame = <<<<4, 1>>, <<5, 2>>, <<6, 3>>>>

\* C22: for an orientation that is none of 0, 90, 180 and 270, each path gives
\* what it gives for orientation 0, for either facing.
C22_OtherOrientationAsZero ==
    (view.stage = "sent" /\ view.orientation_degrees \notin Orientations)
        => /\ view.preview_frame = ProcessFrameForPreview(view.frame, 0, view.is_back_camera)
           /\ view.virtual_cam
                 => view.vcam_frame = ProcessFrameForVcam(view.frame, 0, view.is_back_camera)

-----------------------------------------------------------------------------
(* The sink: properties                                                     *)

\* C23: a send_frame call on a started sink pushes one frame to the driver,
\* the frame itself or the canvas with the frame on it.
C23_EveryFramePushedOnce ==
    sink.result \in {"direct", "letterbox", "error"} => sink.pushed = 1

\* C24: a send_frame call that takes the resize path works with the
\* parameters of the frame it was given: after it the cache holds the
\* parameters computed from that frame's size and the output size.
C24_CacheIsOfCurrentFrame ==
    sink.result \in {"letterbox", "error"}
        => /\ sink.last_frame_size = sink.frame
           /\ sink.region = ScaleParams(sink.width, sink.height, sink.frame[2], sink.frame[1])

\* C25: the parameters the resize path computes are those of section 4.4:
\* the scaled size is the input size times min(outW/inW, outH/inH) rounded
\* down, the offsets half the remaining space, and the scaled image lies
\* inside the output.
C25_LetterboxParameters ==
    (sink.result \in {"letterbox", "error"} /\ sink.region.set)
        => /\ sink.region = LetterboxReference(sink.width, sink.height,
                                                sink.frame[2], sink.frame[1])
           /\ sink.region.paste_x >= 0 /\ sink.region.paste_y >= 0
           /\ sink.region.paste_x + sink.region.new_w <= sink.width
           /\ sink.region.paste_y + sink.region.new_h <= sink.height

-----------------------------------------------------------------------------
(* The preview delivery: properties                                         *)

\* C26: at most one preview delivery is pending at any time, and while one
\* is queued the pending mark is set, so that a frame arriving then is
\* discarded.
C26_AtMostOneDeliveryPending ==
    /\ ui.scheduled <= 1
    /\ ui.scheduled = 1 => ui.ui_update_pending

-----------------------------------------------------------------------------
(* The framing of a stream: properties                                      *)

\* the bytes of the packet being read that the loop holds
Consumed ==
    IF thread_pc = "recv_size" THEN data
    ELSE IF thread_pc = "recv_payload" THEN PackBE(packet_size) \o data
    ELSE << >>

\* the bytes held and the bytes to come are the packets after the k-th
RestIsAfter(k) == Consumed \o stream \o wire = EncodeAll(SubSeq(sent, k + 1, Len(sent)))

\* the loop has just read a packet
PacketJustRead ==
    thread_pc = "top" /\ last_result \in {"skip", "no_callback", "decoded", "decode_error"}

\* C27: whatever the pieces in which the bytes arrive and are read, and
\* whatever the timeouts in between, the loop reads the packets that were
\* framed, in order: the bytes it holds followed by the bytes to come are
\* always the packets not read yet, a packet it has read is the next framed
\* one, and it ends only when the peer has closed and every packet was read.
C27_FramedPacketsReadInOrder ==
    /\ thread_pc \in {"top", "recv_size", "recv_payload"}
           => \E k \in 0..Len(sent) : /\ RestIsAfter(k)
                                      /\ PacketJustRead => k >= 1 /\ packet_data = sent[k]
    /\ thread_pc = "exited" => link = "eof" /\ stream = << >> /\ wire = << >>

\* the stream has no packet of length 0
NoEmptyPacket == \A k \in 1..Len(sent) : sent[k] # << >>

\* the loop is waiting for the rest of a length prefix, and for the rest of a
\* payload
MidPrefixTimeout ==
    /\ thread_pc = "recv_size" /\ data # << >> /\ Len(data) < SizeFieldLen
    /\ stream = << >> /\ wire # << >> /\ link = "up"

-----------------------------------------------------------------------------
(* The friendly-name lookup: properties                                     *)

\* C28: no friendly-name query runs while the registry lock is held.
C28_NoQueryUnderLock ==
    \A t \in Scanners : th[t].pc = "query" => lock = "free"

\* C29: when the friendly-name query of a newly ready phone is over, however
\* it ended, the phone is in the registry, under the model name the query
\* printed or under its serial, and the cycle goes on with the phones after
\* it.
C29_FailedLookupStillInserts ==
    [][\A t \in Scanners :
          (th[t].pc = "query" /\ th'[t].pc # "query")
              => LET serial == Head(th[t].listing).serial
                 IN  /\ UsbId(serial) \in DOMAIN devices'
                     /\ devices'[UsbId(serial)].name
                            \in {GetDeviceName(serial, o) : o \in NameOutcomes(serial)}
                     /\ th'[t].pc = "notify"
                     /\ th'[t].after = "scan"]_vars

-----------------------------------------------------------------------------
(* Restarting a receiver: properties                                        *)

\* the previous loop has ended on a zero-length read or a read error and the
\* connection it ran over is gone
LoopEndedByPeer ==
    /\ thread_pc = "exited"
    /\ ~is_running
    /\ last_result \in {"eof", "eof_partial", "error"}
    /\ link \in {"eof", "broken"}

\* C30: a start_receiving() that spawns a loop after the previous loop was
\* ended by the peer's closure or by a read error runs it over a new
\* connection.
C30_RestartOverNewConnection ==
    [][(CallStep("start_receiving") /\ LoopEndedByPeer /\ thread_pc' = "top")
          => ssl_socket' = "open" /\ link' = "up"]_vars

\* C35: when the resize path pushes the canvas, everything pasted on it
\* since it was last black lies in the region of the current frame: the
\* bars hold no pixels of an earlier frame.
C35_BarsAreBlack ==
    (sink.result = "letterbox" /\ sink.pushed = 1)
        => sink.painted \subseteq PasteRegion(sink.region)

\* a 640x480 frame is letterboxed into 1280x720 after a portrait frame
C35_Witness ==
    /\ sink.result = "letterbox"
    /\ sink.pushed = 1
    /\ sink.width = 1280 /\ sink.height = 720
    /\ sink.frame = <<480, 640>>
    /\ sink.previous = <<640, 480>>
    /\ sink.painted = {[x |-> 160, y |-> 0, w |-> 960, h |-> 720]}

-----------------------------------------------------------------------------
(* The frame counter: properties                                            *)

\* C34: within a session frames_decoded never decreases: a packet handed to
\* _decode_frame adds the frames it emitted to the callback, whether the
\* decode succeeds, fails or makes the decoder start over.
C34_FramesDecodedMonotone ==
    [][(thread_pc = "recv_payload" /\ thread_pc' = "top")
          => frames_decoded' = frames_decoded + Len(delivered')]_vars

-----------------------------------------------------------------------------
(* Overlapping sessions: properties                                         *)

\* a receive loop is executing
LoopRunning == thread_pc \notin {"none", "exited"}

\* C31: at most one receive loop is executing at a time: the loop of an
\* earlier session is never alive next to the loop of a later one.
C31_AtMostOneLoop == ~(late /\ LoopRunning)

-----------------------------------------------------------------------------
(* The stopped discovery service: properties                                *)

\* stop() has returned and start() has not been called since (or never was)
Stopped ==
    /\ ~usb_poll_running
    /\ ~mdns_running
    /\ th["ui"].pc = "idle"

\* thread t changes the registry
Mutates(t) == devices' # devices /\ lock' = t

\* thread t calls a listener
Notifies(t) ==
    /\ th[t].pc = "notify"
    /\ th'[t].next # th[t].next \/ th'[t].pc = "deadlock"

\* C32: while the service is stopped neither the poll thread nor the
\* advertisement thread changes the registry or calls a listener.
C32_QuietAfterStop ==
    [][Stopped => \A t \in {"poll", "mdns"} : ~Mutates(t) /\ ~Notifies(t)]_vars

-----------------------------------------------------------------------------
(* The registry against the phones: properties                              *)

\* the ids of the phones that are ready
ReadyIds == {UsbId(serial) : serial \in {x \in Serials : adb.shown[x] = "device"}}

\* C33: once the phones have stopped changing, with the poll loop running,
\* the direct-attach entries of the registry become the ready phones and stay
\* so.
C33_RegistryConverges ==
    (adb.settled /\ usb_poll_running) ~> [](IdsOfType(devices, "usb") = ReadyIds)

=============================================================================
